---- MODULE Spec2Model ----
(***************************************************************************)
(* Model of switch_mod/hawaii/save_results.py: the reports write_results   *)
(* builds from a solved SWITCH model (summary, energy_sources,             *)
(* capacity_by_technology, capacity_by_energy_source, cost_breakdown,      *)
(* rfm_activate), with the helpers DispatchProjByFuel and                  *)
(* annualize_present_value_period_cost.                                    *)
(*                                                                         *)
(* The solved model is the record m.  hasattr(m, "X") is "X" \in m.attrs.  *)
(* An indexed component that the solver materialises only for some index   *)
(* tuples is a function whose DOMAIN is the set of defined tuples; reading *)
(* it outside its DOMAIN is Python's KeyError.                             *)
(***************************************************************************)
EXTENDS Integers, Sequences, FiniteSets, TLC

VARIABLES
    m,      \* the solved model write_results reads; never changed
    pc,     \* the report write_results is about to write
    files,  \* the tables written so far, in the order they were written
    built,  \* built_proj, operate_proj_in_period, built_tech, built_energy_source
    err,    \* the exception that ended write_results, "none" while it runs
    call    \* the last application of DispatchProjByFuel on its own

vars == <<m, pc, files, built, err, call>>

(***************************************************************************)
(* Bounds of the model.                                                    *)
(***************************************************************************)
\* largest fuel use rate drawn for ProjFuelUseRate
MaxRate == 3
\* largest number of investment periods of a model instance
MaxPeriods == 2

\* the longest period, in years
MaxYears == 3

(***************************************************************************)
(* Values placed in report rows.  A Python float is an exact rational n/d  *)
(* in lowest terms, a Python int is kept apart from a float (0 is not      *)
(* 0.0), a str carries its text.                                           *)
(***************************************************************************)
Abs(i) == IF i < 0 THEN -i ELSE i

RECURSIVE GCD(_, _)
GCD(a, b) == IF b = 0 THEN a ELSE GCD(b, a % b)

Str(s) == [k |-> "str", n |-> 0, d |-> 1, s |-> s]

PyInt(i) == [k |-> "int", n |-> i, d |-> 1, s |-> ""]

\* the float n/d, d # 0, in lowest terms with a positive denominator
Float(n, d) ==
    LET g == GCD(Abs(n), Abs(d))
        sgn == IF d < 0 THEN -1 ELSE 1
    IN  [k |-> "float", n |-> sgn * (n \div g), d |-> sgn * (d \div g), s |-> ""]

Flt(i) == Float(i, 1)

Zero == Flt(0)

IsNum(c) == c.k \in {"float", "int"}

\* Python's value(x) == 0.0: an int 0 and a float 0.0 both compare equal to 0.0
IsZero(c) == IsNum(c) /\ c.n = 0

\* numeric equality, as Python compares an int with a float (0 == 0.0)
NumEq(a, b) == a.n * b.d = b.n * a.d

\* a + b: an int only when both are ints
Add(a, b) ==
    IF a.k = "int" /\ b.k = "int" THEN PyInt(a.n + b.n)
    ELSE Float(a.n * b.d + b.n * a.d, a.d * b.d)

Sub(a, b) == Float(a.n * b.d - b.n * a.d, a.d * b.d)

Mul(a, b) == Float(a.n * b.n, a.d * b.d)

\* a / b for b # 0; the caller decides what a zero divisor does
Div(a, b) == Float(a.n * b.d, a.d * b.n)

Less(a, b) == a.n * b.d < b.n * a.d

\* Python's sum() over the sequence s of numbers: it starts from the int 0
RECURSIVE SumSeq(_)
SumSeq(s) == IF s = <<>> THEN PyInt(0) ELSE Add(SumSeq(SubSeq(s, 1, Len(s) - 1)), s[Len(s)])

Range(s) == {s[i] : i \in 1..Len(s)}

\* position of x in the sequence s, 0 when x does not occur
IndexOf(s, x) == IF x \in Range(s) THEN CHOOSE i \in 1..Len(s) : s[i] = x ELSE 0

\* every function from a subset of D to V: a sparsely defined component
PartialMaps(D, V) == UNION {[S -> V] : S \in SUBSET D}

(***************************************************************************)
(* The index sets and parameters of the solved model that every instance   *)
(* shares: two load zones, four projects of three technologies, two fuels  *)
(* and two non-fuel energy sources (Solar has no project).                 *)
(***************************************************************************)
LOAD_ZONES == <<"z1", "z2">>

\* the periods are two years long and start in 2020, the base financial year
AllPeriods == [i \in 1..MaxPeriods |-> 2018 + 2 * i]

\* the timepoints of the i-th period: two per period
PeriodTimepoints(i) == <<2 * i - 1, 2 * i>>

AllFuels == <<"LNG", "Diesel">>

AllNonFuelSources == <<"Wind", "Solar">>

AllProjects == <<"CC1", "ST1", "W1", "W2">>

proj_gen_tech == [p \in Range(AllProjects) |->
    CASE p = "CC1" -> "CC" [] p = "ST1" -> "ST" [] OTHER -> "WindTurbine"]

proj_load_zone == [p \in Range(AllProjects) |->
    CASE p = "CC1" -> "z1" [] p = "ST1" -> "z2" [] p = "W1" -> "z1" [] OTHER -> "z2"]

AllTechs == {proj_gen_tech[p] : p \in Range(AllProjects)}

g_uses_fuel == [t \in AllTechs |-> t \in {"CC", "ST"}]

g_energy_source == [t \in AllTechs |->
    CASE t = "CC" -> "multiple" [] t = "ST" -> "LNG" [] OTHER -> "Wind"]

\* the fuels each fuel-using technology may burn; not defined for the others
G_FUELS == [t \in {"CC", "ST"} |-> IF t = "CC" THEN {"LNG", "Diesel"} ELSE {"LNG"}]

\* the projects, in the order of PROJECTS, that may burn fuel f
PROJECTS_BY_FUEL(mm, f) ==
    SelectSeq(mm.PROJECTS,
              LAMBDA p : g_uses_fuel[proj_gen_tech[p]] /\ f \in G_FUELS[proj_gen_tech[p]])

\* the projects, in the order of PROJECTS, of the non-fuel energy source s
PROJECTS_BY_NON_FUEL_ENERGY_SOURCE(mm, s) ==
    SelectSeq(mm.PROJECTS,
              LAMBDA p : ~g_uses_fuel[proj_gen_tech[p]] /\ g_energy_source[proj_gen_tech[p]] = s)

\* hasattr(m, name)
hasattr(mm, name) == name \in mm.attrs

\* the eligible fuels of a project as a sequence, in the order of AllFuels
EligibleFuels(p) == SelectSeq(AllFuels, LAMBDA f : f \in G_FUELS[proj_gen_tech[p]])

(***************************************************************************)
(* DispatchProjByFuel(m, proj, tp, fuel), save_results.py lines 112-132.   *)
(* The result is [err, v, readRate]: err is the exception that leaves the  *)
(* function ("none" when it returns), v the value returned, readRate       *)
(* whether ProjFuelUseRate was read.                                       *)
(***************************************************************************)
DispatchProjByFuelNoGuard(mm, proj, tp, fuel) ==
    LET fuels == EligibleFuels(proj)
        missing == \E f \in Range(fuels) \cup {fuel} :
                       <<proj, tp, f>> \notin DOMAIN mm.ProjFuelUseRate
    IN  IF missing THEN [err |-> "KeyError", v |-> Zero, readRate |-> TRUE]
        ELSE LET dispatch == IF <<proj, tp>> \in DOMAIN mm.DispatchProj
                                THEN Flt(mm.DispatchProj[<<proj, tp>>]) ELSE Zero
                 total == SumSeq([i \in 1..Len(fuels) |->
                                     Flt(mm.ProjFuelUseRate[<<proj, tp, fuels[i]>>])])
             IN  IF IsZero(total) THEN [err |-> "none", v |-> Zero, readRate |-> TRUE]
                 ELSE [err |-> "none",
                       v |-> Div(Mul(dispatch, Flt(mm.ProjFuelUseRate[<<proj, tp, fuel>>])), total),
                       readRate |-> TRUE]

DispatchProjByFuelAllFuels(mm, proj, tp, fuel) ==
    LET dispatch == IF <<proj, tp>> \in DOMAIN mm.DispatchProj
                        THEN Flt(mm.DispatchProj[<<proj, tp>>]) ELSE Zero
        missing == \E f \in Range(AllFuels) : <<proj, tp, f>> \notin DOMAIN mm.ProjFuelUseRate
    IN  IF IsZero(dispatch) THEN [err |-> "none", v |-> Zero, readRate |-> FALSE]
        ELSE IF missing THEN [err |-> "KeyError", v |-> Zero, readRate |-> TRUE]
        ELSE LET total == SumSeq([i \in 1..Len(AllFuels) |->
                                     Flt(mm.ProjFuelUseRate[<<proj, tp, AllFuels[i]>>])])
             IN  IF IsZero(total) THEN [err |-> "none", v |-> Zero, readRate |-> TRUE]
                 ELSE [err |-> "none",
                       v |-> Div(Mul(dispatch, Flt(mm.ProjFuelUseRate[<<proj, tp, fuel>>])), total),
                       readRate |-> TRUE]

DispatchProjByFuelNoCatch(mm, proj, tp, fuel) ==
    LET dispatch == IF <<proj, tp>> \in DOMAIN mm.DispatchProj
                        THEN Flt(mm.DispatchProj[<<proj, tp>>]) ELSE Zero
        fuels == EligibleFuels(proj)
    IN  IF IsZero(dispatch) THEN [err |-> "none", v |-> Zero, readRate |-> FALSE]
        ELSE LET total == SumSeq([i \in 1..Len(fuels) |->
                                     Flt(mm.ProjFuelUseRate[<<proj, tp, fuels[i]>>])])
             IN  IF IsZero(total)
                 THEN [err |-> "ZeroDivisionError", v |-> Zero, readRate |-> TRUE]
                 ELSE [err |-> "none",
                       v |-> Div(Mul(dispatch, Flt(mm.ProjFuelUseRate[<<proj, tp, fuel>>])), total),
                       readRate |-> TRUE]

DispatchProjByFuel(mm, proj, tp, fuel) ==
    LET \* line 117: the dispatch, 0.0 when (proj, tp) is not an index of DispatchProj
        dispatch == IF <<proj, tp>> \in DOMAIN mm.DispatchProj
                        THEN Flt(mm.DispatchProj[<<proj, tp>>]) ELSE Zero
        fuels == EligibleFuels(proj)
        \* lines 127-128: the indices of ProjFuelUseRate the expression reads
        missing == \E f \in Range(fuels) \cup {fuel} :
                       <<proj, tp, f>> \notin DOMAIN mm.ProjFuelUseRate
    IN  IF IsZero(dispatch)
        THEN \* lines 118-119
             [err |-> "none", v |-> Zero, readRate |-> FALSE]
        ELSE IF missing
        THEN \* a KeyError is not a ZeroDivisionError: it leaves the function
             [err |-> "KeyError", v |-> Zero, readRate |-> TRUE]
        ELSE LET total == SumSeq([i \in 1..Len(fuels) |->
                                     Flt(mm.ProjFuelUseRate[<<proj, tp, fuels[i]>>])])
             IN  IF IsZero(total)
                 THEN \* lines 130-131: except ZeroDivisionError
                      [err |-> "none", v |-> Zero, readRate |-> TRUE]
                 ELSE \* lines 125-129
                      [err |-> "none",
                       v |-> Div(Mul(dispatch, Flt(mm.ProjFuelUseRate[<<proj, tp, fuel>>])), total),
                       readRate |-> TRUE]

(***************************************************************************)
(* Parameters and solved values of the model that the reports read and     *)
(* that every instance shares.  A component of an optional module is read  *)
(* only where the code reads it, behind its hasattr test.                  *)
(***************************************************************************)
tp_period(t) == AllPeriods[(t + 1) \div 2]

\* the timepoints of the periods of the sequence periods
TimepointsOf(periods) ==
    [j \in 1..(2 * Len(periods)) |-> PeriodTimepoints((j + 1) \div 2)[2 - (j % 2)]]

tp_timestamp(t) == "tp" \o ToString(t)

\* tp_ts[t]: the timeseries of timepoint t, named by its first timepoint
tp_ts(mm, t) == mm.tp_ts[t]

\* TIMESERIES: the timeseries of the model's timepoints, in order
TIMESERIES(mm) == SelectSeq(mm.TIMEPOINTS, LAMBDA t : mm.tp_ts[t] = t)

\* PERIOD_TPS[p]: the timepoints of period p, in order
PERIOD_TPS(mm, p) == SelectSeq(mm.TIMEPOINTS, LAMBDA t : tp_period(t) = p)

bring_timepoint_costs_to_base_year(t) == Float(1, 2)

SystemCostPerPeriod(p) == Flt(100 * (p - 2000))

SystemCost(mm) == SumSeq([i \in 1..Len(mm.PERIODS) |-> SystemCostPerPeriod(mm.PERIODS[i])])

demand_response_max_share == Float(3, 10)

\* getattr(m, component)[z, t] for the components of the energy balance
ComponentValue(c, z, t) ==
    CASE c = "lz_demand_mw" -> Flt(10 + t + (IF z = "z1" THEN 0 ELSE 5))
      [] c = "DemandResponse" -> Flt(1)
      [] c = "ChargeEVs" -> Flt(2)
      [] c = "LZ_NetDispatch" -> Flt(12 + t)
      [] OTHER -> Flt(IF z = "z1" THEN 3 ELSE -3)

AllProduceComponents == <<"LZ_NetDispatch", "TXPowerNet">>

AllConsumeComponents == <<"lz_demand_mw", "ChargeEVs">>

RPSEligiblePower(p) == Flt(p - 1990)

RPSTotalPower(p) == Flt(p - 1980)

RPSFuelPower(p) == Flt(5)

\* util.get(component, index, default): the value at index, default when
\* index is not defined in component
get(component, index, default) ==
    IF index \in DOMAIN component THEN Flt(component[index]) ELSE default

(***************************************************************************)
(* summary_headers and summary_values, lines 35-97.  A row function        *)
(* returns [err, v]: the exception that leaves it ("none"), and its values.*)
(***************************************************************************)
PeriodHeads(prefix, periods) == [i \in 1..Len(periods) |-> prefix \o ToString(periods[i])]

summary_headersRPSFirst(mm) ==
    <<"scenario", "max_demand_response_share", "total_cost", "cost_per_kwh">>
    \o (IF hasattr(mm, "RPSEligiblePower")
        THEN <<"renewable_share_all_years">> \o PeriodHeads("renewable_share_", mm.PERIODS)
        ELSE <<>>)
    \o PeriodHeads("cost_per_kwh_", mm.PERIODS)
    \o (IF hasattr(mm, "RPSEligiblePower")
        THEN <<"biofuel_share_all_years">> \o PeriodHeads("biofuel_share_", mm.PERIODS)
        ELSE <<>>)

summary_headers(mm) ==
    <<"scenario", "max_demand_response_share", "total_cost", "cost_per_kwh">>
    \o PeriodHeads("cost_per_kwh_", mm.PERIODS)
    \o (IF hasattr(mm, "RPSEligiblePower")
        THEN <<"renewable_share_all_years">> \o PeriodHeads("renewable_share_", mm.PERIODS)
        ELSE <<>>)
    \o (IF hasattr(mm, "RPSEligiblePower")
        THEN <<"biofuel_share_all_years">> \o PeriodHeads("biofuel_share_", mm.PERIODS)
        ELSE <<>>)

\* line 46: the demand components the model has
demand_components(mm) ==
    SelectSeq(<<"lz_demand_mw", "DemandResponse", "ChargeEVs">>, LAMBDA c : hasattr(mm, c))

\* lines 63-66: the demand of the timepoints tps in kWh, brought to the base year
DemandKWh(mm, tps) ==
    SumSeq([i \in 1..Len(tps) |->
        Mul(Mul(bring_timepoint_costs_to_base_year(tps[i]), Flt(1000)),
            SumSeq([k \in 1..(Len(demand_components(mm)) * Len(LOAD_ZONES)) |->
                ComponentValue(demand_components(mm)[((k - 1) \div Len(LOAD_ZONES)) + 1],
                               LOAD_ZONES[((k - 1) % Len(LOAD_ZONES)) + 1], tps[i])]))])

summary_values(mm) ==
    LET P == mm.PERIODS
        rpsTotal == SumSeq([i \in 1..Len(P) |-> RPSTotalPower(P[i])])
        divides == <<DemandKWh(mm, mm.TIMEPOINTS)>>
                   \o [i \in 1..Len(P) |-> DemandKWh(mm, PERIOD_TPS(mm, P[i]))]
                   \o (IF hasattr(mm, "RPSEligiblePower")
                       THEN <<rpsTotal>> \o [i \in 1..Len(P) |-> RPSTotalPower(P[i])]
                       ELSE <<>>)
    IN  IF \E i \in 1..Len(divides) : IsZero(divides[i])
        THEN [err |-> "ZeroDivisionError", v |-> <<>>]
        ELSE [err |-> "none",
              v |-> \* lines 50-53
                    <<Str(mm.scenario_name),
                      IF hasattr(mm, "demand_response_max_share")
                      THEN demand_response_max_share ELSE Zero,
                      \* line 56
                      SystemCost(mm),
                      \* lines 60-67
                      Div(SystemCost(mm), DemandKWh(mm, mm.TIMEPOINTS))>>
                    \* lines 71-79
                    \o [i \in 1..Len(P) |->
                           Div(SystemCostPerPeriod(P[i]), DemandKWh(mm, PERIOD_TPS(mm, P[i])))]
                    \* lines 81-95
                    \o (IF hasattr(mm, "RPSEligiblePower")
                        THEN <<Div(SumSeq([i \in 1..Len(P) |-> RPSEligiblePower(P[i])]), rpsTotal)>>
                             \o [i \in 1..Len(P) |-> Div(RPSEligiblePower(P[i]), RPSTotalPower(P[i]))]
                             \o <<Div(SumSeq([i \in 1..Len(P) |-> RPSFuelPower(P[i])]), rpsTotal)>>
                             \o [i \in 1..Len(P) |-> Div(RPSFuelPower(P[i]), RPSTotalPower(P[i]))]
                        ELSE <<>>)]

(***************************************************************************)
(* util.write_table(m, *indexes, output_file, headings, values): the       *)
(* heading row, then one row per tuple of the product of the index sets,   *)
(* the first set varying slowest.  A row function that raises ends the     *)
(* table, and write_results, at that row.                                  *)
(***************************************************************************)
\* the product of two index sequences, the first varying slowest
Product2(A, B) ==
    [k \in 1..(Len(A) * Len(B)) |-> <<A[((k - 1) \div Len(B)) + 1], B[((k - 1) % Len(B)) + 1]>>]

\* the position of the first row result that is an exception, 0 when none is
FirstError(results) ==
    IF \E k \in 1..Len(results) : results[k].err # "none"
    THEN CHOOSE k \in 1..Len(results) :
             results[k].err # "none" /\ \A j \in 1..(k - 1) : results[j].err = "none"
    ELSE 0

\* the file write_table leaves: the rows before the first exception
write_table(name, headings, index, results) ==
    LET n == IF FirstError(results) = 0 THEN Len(results) ELSE FirstError(results) - 1
    IN  [name |-> name, headings |-> headings,
         index |-> SubSeq(index, 1, n),
         rows |-> [k \in 1..n |-> results[k].v]]

\* the exception write_table lets through, "none" when every row was written
TableError(results) ==
    IF FirstError(results) = 0 THEN "none" ELSE results[FirstError(results)].err

tagAlways(mm) == "_" \o mm.scenario_name

\* line 135 and the output_file arguments: <report>[_<scenario_name>].tsv
tag(mm) == IF mm.scenario_name # "" THEN "_" \o mm.scenario_name ELSE ""

output_file(mm, report) == report \o tag(mm) \o ".tsv"

\* the first exception among the cell results cells, "none" when there is none
CellsError(cells) ==
    IF \E k \in 1..Len(cells) : cells[k].err # "none"
    THEN cells[CHOOSE k \in 1..Len(cells) :
                   cells[k].err # "none" /\ \A j \in 1..(k - 1) : cells[j].err = "none"].err
    ELSE "none"

(***************************************************************************)
(* The energy_sources report, lines 152-186.                               *)
(***************************************************************************)
\* line 152
avg_ts_scaleOverTimepoints(mm) ==
    Div(SumSeq([i \in 1..Len(mm.TIMEPOINTS) |->
                   Flt(mm.ts_scale_to_year[tp_ts(mm, mm.TIMEPOINTS[i])])]),
        Flt(Len(mm.TIMEPOINTS)))

avg_ts_scale(mm) ==
    Div(SumSeq([i \in 1..Len(TIMESERIES(mm)) |-> Flt(mm.ts_scale_to_year[TIMESERIES(mm)[i]])]),
        Flt(Len(TIMESERIES(mm))))

energy_sources_headings(mm) ==
    <<"load_zone", "period", "timepoint_label">>
    \o mm.FUELS
    \o mm.NON_FUEL_ENERGY_SOURCES
    \o [i \in 1..Len(mm.NON_FUEL_ENERGY_SOURCES) |-> "curtail_" \o mm.NON_FUEL_ENERGY_SOURCES[i]]
    \o mm.LZ_Energy_Components_Produce
    \o mm.LZ_Energy_Components_Consume
    \o <<"marginal_cost", "peak_day">>

\* lines 166-169: the column of fuel f, a sum over PROJECTS_BY_FUEL[f]
FuelDispatchAllProjects(mm, t, f) ==
    LET ps == SelectSeq(mm.PROJECTS, LAMBDA p : g_uses_fuel[proj_gen_tech[p]])
        parts == [i \in 1..Len(ps) |->
                     IF f \in G_FUELS[proj_gen_tech[ps[i]]]
                     THEN DispatchProjByFuel(mm, ps[i], t, f)
                     ELSE [err |-> "none", v |-> get(mm.DispatchProj, <<ps[i], t>>, Zero),
                           readRate |-> FALSE]]
    IN  [err |-> CellsError(parts), v |-> SumSeq([i \in 1..Len(ps) |-> parts[i].v])]

FuelDispatch(mm, t, f) ==
    LET ps == PROJECTS_BY_FUEL(mm, f)
        parts == [i \in 1..Len(ps) |-> DispatchProjByFuel(mm, ps[i], t, f)]
    IN  [err |-> CellsError(parts), v |-> SumSeq([i \in 1..Len(ps) |-> parts[i].v])]

\* lines 170-173: the column of the non-fuel source s
NonFuelDispatch(mm, t, s) ==
    LET ps == PROJECTS_BY_NON_FUEL_ENERGY_SOURCE(mm, s)
    IN  SumSeq([i \in 1..Len(ps) |-> get(mm.DispatchProj, <<ps[i], t>>, Zero)])

\* lines 174-180: the curtail_ column of the non-fuel source s
Curtailment(mm, t, s) ==
    LET ps == PROJECTS_BY_NON_FUEL_ENERGY_SOURCE(mm, s)
    IN  SumSeq([i \in 1..Len(ps) |->
            Sub(get(mm.DispatchUpperLimit, <<ps[i], t>>, Zero),
                get(mm.DispatchProj, <<ps[i], t>>, Zero))])

marginal_costRawDual(mm, z, t) == get(mm.dual, <<z, t>>, Zero)

\* line 183: the dual of Energy_Balance[z, t], 0.0 when the solver gave none
marginal_cost(mm, z, t) ==
    Div(get(mm.dual, <<z, t>>, Zero), bring_timepoint_costs_to_base_year(t))

energy_sources_valuesOwnZone(mm, z, t) ==
    LET fuelCells == [i \in 1..Len(mm.FUELS) |-> FuelDispatch(mm, t, mm.FUELS[i])]
        S == mm.NON_FUEL_ENERGY_SOURCES
    IN  [err |-> CellsError(fuelCells),
         v |-> <<Str(z), PyInt(tp_period(t)), Str(tp_timestamp(t))>>
               \o [i \in 1..Len(mm.FUELS) |-> fuelCells[i].v]
               \o [i \in 1..Len(S) |->
                      LET ps == SelectSeq(PROJECTS_BY_NON_FUEL_ENERGY_SOURCE(mm, S[i]),
                                          LAMBDA p : proj_load_zone[p] = z)
                      IN  SumSeq([k \in 1..Len(ps) |-> get(mm.DispatchProj, <<ps[k], t>>, Zero)])]
               \o [i \in 1..Len(S) |->
                      LET ps == SelectSeq(PROJECTS_BY_NON_FUEL_ENERGY_SOURCE(mm, S[i]),
                                          LAMBDA p : proj_load_zone[p] = z)
                      IN  SumSeq([k \in 1..Len(ps) |->
                              Sub(get(mm.DispatchUpperLimit, <<ps[k], t>>, Zero),
                                  get(mm.DispatchProj, <<ps[k], t>>, Zero))])]
               \o [i \in 1..Len(mm.LZ_Energy_Components_Produce) |->
                      ComponentValue(mm.LZ_Energy_Components_Produce[i], z, t)]
               \o [i \in 1..Len(mm.LZ_Energy_Components_Consume) |->
                      ComponentValue(mm.LZ_Energy_Components_Consume[i], z, t)]
               \o <<marginal_cost(mm, z, t),
                    IF Less(Flt(mm.ts_scale_to_year[tp_ts(mm, t)]), avg_ts_scale(mm))
                    THEN Str("peak") ELSE Str("typical")>>]

\* lines 164-185
energy_sources_values(mm, z, t) ==
    LET fuelCells == [i \in 1..Len(mm.FUELS) |-> FuelDispatch(mm, t, mm.FUELS[i])]
        S == mm.NON_FUEL_ENERGY_SOURCES
    IN  [err |-> CellsError(fuelCells),
         v |-> <<Str(z), PyInt(tp_period(t)), Str(tp_timestamp(t))>>
               \o [i \in 1..Len(mm.FUELS) |-> fuelCells[i].v]
               \o [i \in 1..Len(S) |-> NonFuelDispatch(mm, t, S[i])]
               \o [i \in 1..Len(S) |-> Curtailment(mm, t, S[i])]
               \o [i \in 1..Len(mm.LZ_Energy_Components_Produce) |->
                      ComponentValue(mm.LZ_Energy_Components_Produce[i], z, t)]
               \o [i \in 1..Len(mm.LZ_Energy_Components_Consume) |->
                      ComponentValue(mm.LZ_Energy_Components_Consume[i], z, t)]
               \o <<marginal_cost(mm, z, t),
                    IF Less(Flt(mm.ts_scale_to_year[tp_ts(mm, t)]), avg_ts_scale(mm))
                    THEN Str("peak") ELSE Str("typical")>>]

(***************************************************************************)
(* Installed capacity, lines 189-237.                                      *)
(***************************************************************************)
\* sorted(m.G_FUELS[t]): the fuels in alphabetical order
SortedFuels == <<"Diesel", "LNG">>

RECURSIVE JoinWith(_, _)
JoinWith(sep, names) ==
    IF names = <<>> THEN ""
    ELSE IF Len(names) = 1 THEN names[1]
    ELSE names[1] \o sep \o JoinWith(sep, Tail(names))

\* line 189
g_energy_source_of(t) ==
    IF g_uses_fuel[t]
    THEN JoinWith("/", SelectSeq(SortedFuels, LAMBDA f : f \in G_FUELS[t]))
    ELSE g_energy_source[t]

\* the materiality threshold of lines 191 and 195: 0.001
Threshold == Float(1, 1000)

\* ProjCapacity is kept in units of 0.001 MW
Capacity(mm, pr, pe) == Float(mm.ProjCapacity[<<pr, pe>>], 1000)

\* every order in which iterating the set S may yield its elements
Orders(S) ==
    {o \in [1..Cardinality(S) -> S] : \A i, j \in 1..Cardinality(S) : i # j => o[i] # o[j]}

\* lines 190-192, as a set
built_proj_atleast(mm) ==
    {pr \in Range(mm.PROJECTS) :
        \E i \in 1..Len(mm.PERIODS) : ~Less(Capacity(mm, pr, mm.PERIODS[i]), Threshold)}

built_proj_of(mm) ==
    {pr \in Range(mm.PROJECTS) :
        \E i \in 1..Len(mm.PERIODS) : Less(Threshold, Capacity(mm, pr, mm.PERIODS[i]))}

\* a variant in which a project dispatched in any period counts as operating
\* in every period
operate_proj_in_period_ofAnyPeriod(mm) ==
    {<<x[1], pe>> :
        x \in {y \in DOMAIN mm.DispatchProj : Less(Threshold, Flt(mm.DispatchProj[y]))},
        pe \in Range(mm.PERIODS)}

\* lines 193-196, as a set
operate_proj_in_period_of(mm) ==
    {<<x[1], tp_period(x[2])>> :
        x \in {y \in DOMAIN mm.DispatchProj : Less(Threshold, Flt(mm.DispatchProj[y]))}}

\* line 191 reads ProjCapacity[pr, pe] for every project and period
CapacityDefined(mm) ==
    \A pr \in Range(mm.PROJECTS), pe \in Range(mm.PERIODS) : <<pr, pe>> \in DOMAIN mm.ProjCapacity

Pumped_Hydro_Capacity_MW(z, pe) == Flt(IF z = "z1" THEN 30 ELSE 0)

FuelCellCapacityMW(z, pe) == Flt(7)

Battery_Capacity(z, pe) == Flt(IF z = "z1" THEN 16 ELSE 24)

battery_max_discharge == Float(1, 2)

battery_min_discharge_time == Flt(4)

\* lines 201-204
battery_capacity_mw(mm, z, pe) ==
    IF hasattr(mm, "Battery_Capacity")
    THEN Div(Mul(Battery_Capacity(z, pe), battery_max_discharge), battery_min_discharge_time)
    ELSE Zero

\* lines 210-214 and 226-230: the capacity of the built projects among ps
\* that operate in period pe
OperatingCapacity(mm, b, ps, pe) ==
    SumSeq([i \in 1..Len(ps) |->
        IF <<ps[i], pe>> \in b.operate THEN Capacity(mm, ps[i], pe) ELSE Zero])

\* lines 216-220 and 232-236
StorageColumns(mm, z, pe) ==
    <<IF hasattr(mm, "Pumped_Hydro_Capacity_MW") THEN Pumped_Hydro_Capacity_MW(z, pe) ELSE PyInt(0),
      battery_capacity_mw(mm, z, pe),
      IF hasattr(mm, "FuelCellCapacityMW") THEN FuelCellCapacityMW(z, pe) ELSE PyInt(0)>>

capacity_by_technology_headings(b) ==
    <<"load_zone", "period">> \o b.tech \o <<"hydro", "batteries", "fuel cells">>

capacity_by_technology_valuesNoStorage(mm, b, z, pe) ==
    [err |-> "none",
     v |-> <<Str(z), PyInt(pe)>>
           \o [i \in 1..Len(b.tech) |->
                  OperatingCapacity(mm, b,
                      SelectSeq(mm.PROJECTS, LAMBDA pr : pr \in b.proj
                          /\ proj_gen_tech[pr] = b.tech[i] /\ proj_load_zone[pr] = z), pe)]]

\* lines 209-220
capacity_by_technology_values(mm, b, z, pe) ==
    [err |-> "none",
     v |-> <<Str(z), PyInt(pe)>>
           \o [i \in 1..Len(b.tech) |->
                  OperatingCapacity(mm, b,
                      SelectSeq(mm.PROJECTS, LAMBDA pr : pr \in b.proj
                          /\ proj_gen_tech[pr] = b.tech[i] /\ proj_load_zone[pr] = z), pe)]
           \o StorageColumns(mm, z, pe)]

capacity_by_energy_source_headings(b) ==
    <<"load_zone", "period">> \o b.energy_source \o <<"hydro", "batteries", "fuel cells">>

\* a variant that compares the energy-source label with the technology's
\* g_energy_source parameter, which for a fuel-using technology is not its label
capacity_by_energy_source_valuesRawSource(mm, b, z, pe) ==
    [err |-> "none",
     v |-> <<Str(z), PyInt(pe)>>
           \o [i \in 1..Len(b.energy_source) |->
                  OperatingCapacity(mm, b,
                      SelectSeq(mm.PROJECTS, LAMBDA pr : pr \in b.proj
                          /\ g_energy_source[proj_gen_tech[pr]] = b.energy_source[i]
                          /\ proj_load_zone[pr] = z), pe)]
           \o StorageColumns(mm, z, pe)]

\* lines 225-236
capacity_by_energy_source_values(mm, b, z, pe) ==
    [err |-> "none",
     v |-> <<Str(z), PyInt(pe)>>
           \o [i \in 1..Len(b.energy_source) |->
                  OperatingCapacity(mm, b,
                      SelectSeq(mm.PROJECTS, LAMBDA pr : pr \in b.proj
                          /\ g_energy_source_of(proj_gen_tech[pr]) = b.energy_source[i]
                          /\ proj_load_zone[pr] = z), pe)]
           \o StorageColumns(mm, z, pe)]

(***************************************************************************)
(* annualize_present_value_period_cost, lines 99-110, over the two         *)
(* discount factors of switch_mod.financials.                              *)
(***************************************************************************)
RECURSIVE Pow(_, _)
Pow(a, n) == IF n = 0 THEN Flt(1) ELSE Mul(a, Pow(a, n - 1))

\* (1 + dr) ** -t, for a whole number of years t >= 0
future_to_present_value(dr, t) == Div(Flt(1), Pow(Add(Flt(1), dr), t))

\* t if dr == 0 else (1 - (1 + dr) ** -t) / dr
uniform_series_to_present_value(dr, t) ==
    IF IsZero(dr) THEN Flt(t)
    ELSE Div(Sub(Flt(1), future_to_present_value(dr, t)), dr)

base_financial_year == 2020

period_start(p) == p

discount_rate(mm) == Float(mm.discount_rate[1], mm.discount_rate[2])

\* lines 101-109
discount_factor(mm, period) ==
    Mul(uniform_series_to_present_value(discount_rate(mm), mm.period_length_years[period]),
        future_to_present_value(discount_rate(mm), period_start(period) - base_financial_year))

annualize_present_value_period_costMultiplied(mm, period, val) ==
    [err |-> "none", v |-> Mul(val, discount_factor(mm, period))]

\* line 110: val / discount_factor
annualize_present_value_period_cost(mm, period, val) ==
    IF IsZero(discount_factor(mm, period))
    THEN [err |-> "ZeroDivisionError", v |-> Zero]
    ELSE [err |-> "none", v |-> Div(val, discount_factor(mm, period))]

(***************************************************************************)
(* The cost_breakdown report, lines 239-361.                               *)
(***************************************************************************)
PH_PROJECTS == <<"ph1", "ph2">>

ph_load_zone(pr) == IF pr = "ph1" THEN "z1" ELSE "z2"

BuildPumpedHydroMW(pr, pe) == Flt(IF pr = "ph1" THEN 30 ELSE 0)

ph_capital_cost_per_mw(pr) == Flt(9)

BuildElectrolyzerMW(z, pe) == Flt(4)

BuildLiquifierKgPerHour(z, pe) == Flt(5)

BuildLiquidHydrogenTankKg(z, pe) == Flt(6)

BuildFuelCellMW(z, pe) == Flt(7)

hydrogen_electrolyzer_capital_cost_per_mw == Flt(11)

hydrogen_liquifier_capital_cost_per_kg_per_hour == Flt(12)

liquid_hydrogen_tank_capital_cost_per_kg == Flt(13)

hydrogen_fuel_cell_capital_cost_per_mw == Flt(14)

n_all_vehicles(z, pe) == Flt(IF z = "z1" THEN 1000 ELSE 400)

ev_share(z, pe) == Float(1, 4)

proj_overnight_cost(pr, pe) == Flt(20)

proj_connect_cost_per_mw(pr) == Flt(IF pr = "CC1" THEN 1 ELSE 2)

battery_capital_cost_per_mwh_capacity == Flt(15)

battery_capital_cost_per_mwh_capacity_by_year(pe) == Flt(pe - 2000)

REGIONAL_FUEL_MARKET == <<"LNG_market", "Diesel_market">>

\* RFM_P_SUPPLY_TIERS[rfm, pe]: two tiers per market and period
RFM_P_SUPPLY_TIERS(rfm, pe) == <<<<rfm, pe, "base">>, <<rfm, pe, "bulk">>>>

FuelConsumptionByTier(rfm_st) == Flt(IF rfm_st[3] = "base" THEN 50 ELSE 8)

rfm_supply_tier_cost(rfm_st) == Flt(IF rfm_st[1] = "LNG_market" THEN 3 ELSE 5)

RFM_Fixed_Costs_Annual(pe) == Flt(77)

ev_extra_annual_cost(pe) == Flt(31)

ice_annual_fuel_cost(pe) == Flt(32)

BuildBattery(mm, z, pe) == Flt(mm.BuildBattery[<<z, pe>>])

\* the built projects of technology t in zone z, in the order of PROJECTS
BuiltProjectsOf(mm, b, t, z) ==
    SelectSeq(mm.PROJECTS,
              LAMBDA pr : pr \in b.proj /\ proj_gen_tech[pr] = t /\ proj_load_zone[pr] = z)

\* lines 243-250
TechMWAdded(mm, b, z, pe) ==
    [i \in 1..Len(b.tech) |->
        LET ps == SelectSeq(BuiltProjectsOf(mm, b, b.tech[i], z),
                            LAMBDA pr : <<pr, pe>> \in DOMAIN mm.BuildProj)
        IN  SumSeq([k \in 1..Len(ps) |-> Flt(mm.BuildProj[<<ps[k], pe>>])])]

\* lines 285-293; PROJECT_BUILDYEARS is the index set of BuildProj
TechOvernightCost(mm, b, z, pe) ==
    [i \in 1..Len(b.tech) |->
        LET ps == SelectSeq(BuiltProjectsOf(mm, b, b.tech[i], z),
                            LAMBDA pr : <<pr, pe>> \in DOMAIN mm.BuildProj)
        IN  SumSeq([k \in 1..Len(ps) |->
                Mul(Flt(mm.BuildProj[<<ps[k], pe>>]),
                    Add(proj_overnight_cost(ps[k], pe), proj_connect_cost_per_mw(ps[k])))])]

\* the pumped hydro projects of zone z
PHProjectsOf(z) == SelectSeq(PH_PROJECTS, LAMBDA pr : ph_load_zone(pr) = z)

\* lines 251-258
BatteryAdded(mm, z, pe) ==
    IF hasattr(mm, "BuildBattery")
    THEN <<Div(BuildBattery(mm, z, pe), battery_min_discharge_time), BuildBattery(mm, z, pe)>>
    ELSE <<Zero, Zero>>

\* lines 260-265
HydroAdded(mm, z, pe) ==
    IF hasattr(mm, "BuildPumpedHydroMW")
    THEN SumSeq([k \in 1..Len(PHProjectsOf(z)) |-> BuildPumpedHydroMW(PHProjectsOf(z)[k], pe)])
    ELSE Zero

\* lines 267-275
HydrogenAdded(mm, z, pe) ==
    IF hasattr(mm, "BuildElectrolyzerMW")
    THEN <<BuildElectrolyzerMW(z, pe), BuildLiquifierKgPerHour(z, pe),
           BuildLiquidHydrogenTankKg(z, pe), BuildFuelCellMW(z, pe)>>
    ELSE <<Zero, Zero, Zero, Zero>>

\* lines 278-280
VehicleCounts(mm, z, pe) ==
    IF hasattr(mm, "ev_share")
    THEN <<Mul(n_all_vehicles(z, pe), ev_share(z, pe)),
           Mul(n_all_vehicles(z, pe), Sub(Flt(1), ev_share(z, pe)))>>
    ELSE <<>>

\* lines 295-301: [err, v]; BuildBattery is read without a hasattr test
BatteryOvernightCost(mm, z, pe) ==
    IF hasattr(mm, "battery_capital_cost_per_mwh_capacity")
    THEN IF hasattr(mm, "BuildBattery")
         THEN [err |-> "none",
               v |-> <<Mul(BuildBattery(mm, z, pe), battery_capital_cost_per_mwh_capacity)>>]
         ELSE [err |-> "AttributeError", v |-> <<>>]
    ELSE IF hasattr(mm, "battery_capital_cost_per_mwh_capacity_by_year")
    THEN IF hasattr(mm, "BuildBattery")
         THEN [err |-> "none",
               v |-> <<Mul(BuildBattery(mm, z, pe),
                           battery_capital_cost_per_mwh_capacity_by_year(pe))>>]
         ELSE [err |-> "AttributeError", v |-> <<>>]
    ELSE [err |-> "none", v |-> <<Zero>>]

\* lines 303-308
HydroOvernightCost(mm, z, pe) ==
    IF hasattr(mm, "BuildPumpedHydroMW")
    THEN SumSeq([k \in 1..Len(PHProjectsOf(z)) |->
             Mul(BuildPumpedHydroMW(PHProjectsOf(z)[k], pe),
                 ph_capital_cost_per_mw(PHProjectsOf(z)[k]))])
    ELSE Zero

\* lines 310-318
HydrogenOvernightCost(mm, z, pe) ==
    IF hasattr(mm, "BuildElectrolyzerMW")
    THEN <<Mul(BuildElectrolyzerMW(z, pe), hydrogen_electrolyzer_capital_cost_per_mw),
           Mul(BuildLiquifierKgPerHour(z, pe), hydrogen_liquifier_capital_cost_per_kg_per_hour),
           Mul(BuildLiquidHydrogenTankKg(z, pe), liquid_hydrogen_tank_capital_cost_per_kg),
           Mul(BuildFuelCellMW(z, pe), hydrogen_fuel_cell_capital_cost_per_mw)>>
    ELSE <<Zero, Zero, Zero, Zero>>

\* lines 321-328
FuelMarketCosts(mm, pe) ==
    (IF hasattr(mm, "REGIONAL_FUEL_MARKET")
     THEN [i \in 1..Len(REGIONAL_FUEL_MARKET) |->
              LET tiers == RFM_P_SUPPLY_TIERS(REGIONAL_FUEL_MARKET[i], pe)
              IN  SumSeq([k \in 1..Len(tiers) |->
                      Mul(FuelConsumptionByTier(tiers[k]), rfm_supply_tier_cost(tiers[k]))])]
     ELSE <<>>)
    \o (IF hasattr(mm, "RFM_Fixed_Costs_Annual") THEN <<RFM_Fixed_Costs_Annual(pe)>> ELSE <<>>)

\* lines 335-337: [err, v]; ice_annual_fuel_cost is read behind the test
\* of ev_extra_annual_cost
TransportCosts(mm, pe) ==
    IF hasattr(mm, "ev_extra_annual_cost")
    THEN IF hasattr(mm, "ice_annual_fuel_cost")
         THEN [err |-> "none", v |-> <<ev_extra_annual_cost(pe), ice_annual_fuel_cost(pe)>>]
         ELSE [err |-> "AttributeError", v |-> <<>>]
    ELSE [err |-> "none", v |-> <<>>]

cost_breakdown_detailsNoPadding(mm, b, z, pe) ==
    LET battery == BatteryOvernightCost(mm, z, pe)
        total == annualize_present_value_period_cost(mm, pe, SystemCostPerPeriod(pe))
        transport == TransportCosts(mm, pe)
    IN  [err |-> CellsError(<<battery, total, transport>>),
         v |-> <<Str(z), PyInt(pe)>>
               \o TechMWAdded(mm, b, z, pe)
               \o (IF hasattr(mm, "BuildBattery") THEN BatteryAdded(mm, z, pe) ELSE <<>>)
               \o <<HydroAdded(mm, z, pe)>>
               \o HydrogenAdded(mm, z, pe)
               \o VehicleCounts(mm, z, pe)
               \o TechOvernightCost(mm, b, z, pe)
               \o battery.v
               \o <<HydroOvernightCost(mm, z, pe)>>
               \o HydrogenOvernightCost(mm, z, pe)
               \o FuelMarketCosts(mm, pe)
               \o <<total.v>>
               \o transport.v]

cost_breakdown_detailsHydroFirst(mm, b, z, pe) ==
    LET battery == BatteryOvernightCost(mm, z, pe)
        total == annualize_present_value_period_cost(mm, pe, SystemCostPerPeriod(pe))
        transport == TransportCosts(mm, pe)
    IN  [err |-> CellsError(<<battery, total, transport>>),
         v |-> <<Str(z), PyInt(pe)>>
               \o TechMWAdded(mm, b, z, pe)
               \o <<HydroAdded(mm, z, pe)>>
               \o BatteryAdded(mm, z, pe)
               \o HydrogenAdded(mm, z, pe)
               \o VehicleCounts(mm, z, pe)
               \o TechOvernightCost(mm, b, z, pe)
               \o battery.v
               \o <<HydroOvernightCost(mm, z, pe)>>
               \o HydrogenOvernightCost(mm, z, pe)
               \o FuelMarketCosts(mm, pe)
               \o <<total.v>>
               \o transport.v]

\* lines 239-339
cost_breakdown_details(mm, b, z, pe) ==
    LET battery == BatteryOvernightCost(mm, z, pe)
        total == annualize_present_value_period_cost(mm, pe, SystemCostPerPeriod(pe))
        transport == TransportCosts(mm, pe)
    IN  [err |-> CellsError(<<battery, total, transport>>),
         v |-> <<Str(z), PyInt(pe)>>
               \o TechMWAdded(mm, b, z, pe)
               \o BatteryAdded(mm, z, pe)
               \o <<HydroAdded(mm, z, pe)>>
               \o HydrogenAdded(mm, z, pe)
               \o VehicleCounts(mm, z, pe)
               \o TechOvernightCost(mm, b, z, pe)
               \o battery.v
               \o <<HydroOvernightCost(mm, z, pe)>>
               \o HydrogenOvernightCost(mm, z, pe)
               \o FuelMarketCosts(mm, pe)
               \o <<total.v>>
               \o transport.v]

cost_breakdown_headingsGated(mm, b) ==
    <<"load_zone", "period">>
    \o [i \in 1..Len(b.tech) |-> b.tech[i] \o "_mw_added"]
    \o (IF hasattr(mm, "BuildBattery")
        THEN <<"batteries_mw_added", "batteries_mwh_added">> ELSE <<>>)
    \o <<"hydro_mw_added">>
    \o <<"h2_electrolyzer_mw_added", "h2_liquifier_kg_per_hour_added",
         "liquid_h2_tank_kg_added", "fuel_cell_mw_added">>
    \o (IF hasattr(mm, "ev_share") THEN <<"ev_count", "ice_count">> ELSE <<>>)
    \o [i \in 1..Len(b.tech) |-> b.tech[i] \o "_overnight_cost"]
    \o (IF hasattr(mm, "BuildBattery") THEN <<"batteries_overnight_cost">> ELSE <<>>)
    \o <<"hydro_overnight_cost">>
    \o <<"h2_electrolyzer_overnight_cost", "h2_liquifier_overnight_cost",
         "liquid_h2_tank_overnight_cost", "fuel_cell_overnight_cost">>
    \o (IF hasattr(mm, "REGIONAL_FUEL_MARKET")
        THEN [i \in 1..Len(REGIONAL_FUEL_MARKET) |-> REGIONAL_FUEL_MARKET[i] \o "_annual_cost"]
        ELSE <<>>)
    \o (IF hasattr(mm, "RFM_Fixed_Costs_Annual")
        THEN <<"fuel_market_expansion_annual_cost">> ELSE <<>>)
    \o <<"total_electricity_cost">>
    \o (IF hasattr(mm, "ev_extra_annual_cost") THEN <<"ev_extra_capital_recovery">> ELSE <<>>)
    \o (IF hasattr(mm, "ice_annual_fuel_cost") THEN <<"ice_annual_fuel_cost">> ELSE <<>>)

\* lines 343-359
cost_breakdown_headings(mm, b) ==
    <<"load_zone", "period">>
    \o [i \in 1..Len(b.tech) |-> b.tech[i] \o "_mw_added"]
    \o <<"batteries_mw_added", "batteries_mwh_added", "hydro_mw_added">>
    \o <<"h2_electrolyzer_mw_added", "h2_liquifier_kg_per_hour_added",
         "liquid_h2_tank_kg_added", "fuel_cell_mw_added">>
    \o (IF hasattr(mm, "ev_share") THEN <<"ev_count", "ice_count">> ELSE <<>>)
    \o [i \in 1..Len(b.tech) |-> b.tech[i] \o "_overnight_cost"]
    \o <<"batteries_overnight_cost", "hydro_overnight_cost">>
    \o <<"h2_electrolyzer_overnight_cost", "h2_liquifier_overnight_cost",
         "liquid_h2_tank_overnight_cost", "fuel_cell_overnight_cost">>
    \o (IF hasattr(mm, "REGIONAL_FUEL_MARKET")
        THEN [i \in 1..Len(REGIONAL_FUEL_MARKET) |-> REGIONAL_FUEL_MARKET[i] \o "_annual_cost"]
        ELSE <<>>)
    \o (IF hasattr(mm, "RFM_Fixed_Costs_Annual")
        THEN <<"fuel_market_expansion_annual_cost">> ELSE <<>>)
    \o <<"total_electricity_cost">>
    \o (IF hasattr(mm, "ev_extra_annual_cost") THEN <<"ev_extra_capital_recovery">> ELSE <<>>)
    \o (IF hasattr(mm, "ice_annual_fuel_cost") THEN <<"ice_annual_fuel_cost">> ELSE <<>>)

(***************************************************************************)
(* The rfm_activate report, lines 370-375.                                 *)
(***************************************************************************)
\* RFM_SUPPLY_TIERS: (market, period, tier), for the periods of the model
RFM_SUPPLY_TIERS(mm) ==
    [k \in 1..(Len(REGIONAL_FUEL_MARKET) * Len(mm.PERIODS) * 2) |->
        RFM_P_SUPPLY_TIERS(REGIONAL_FUEL_MARKET[((k - 1) \div (2 * Len(mm.PERIODS))) + 1],
                           mm.PERIODS[(((k - 1) \div 2) % Len(mm.PERIODS)) + 1])[((k - 1) % 2) + 1]]

RFMSupplyTierActivate(rfm_st) == PyInt(IF rfm_st[3] = "base" THEN 1 ELSE 0)

rfm_activate_headings == <<"market", "period", "tier", "activate">>

\* line 374
rfm_activate_values(mm, rfm_st) ==
    [err |-> "none",
     v |-> <<Str(rfm_st[1]), PyInt(rfm_st[2]), Str(rfm_st[3]), RFMSupplyTierActivate(rfm_st)>>]

(***************************************************************************)
(* Solved-model instances.  BaseModel is one period with every project;    *)
(* the specifications below draw their instances around it.                *)
(***************************************************************************)
DispatchValues == {0, 100}

\* the timepoints of all the periods the model may have
AllTimepoints == TimepointsOf(AllPeriods)

\* f restricted to the indices in S
Restrict(f, S) == [x \in (DOMAIN f) \cap S |-> f[x]]

\* the dispatch of the base instance: CC1 runs at the first timepoint of each
\* period, ST1 is committed but idle at the second, W1 runs always, W2 at
\* the first
BaseDispatchProj ==
    [x \in {y \in Range(AllProjects) \X Range(AllTimepoints) :
               \/ y[1] = "W1"
               \/ (y[1] \in {"CC1", "W2"} /\ y[2] % 2 = 1)
               \/ (y[1] = "ST1" /\ y[2] % 2 = 0)} |->
        CASE x[1] = "CC1" -> 100 [] x[1] = "ST1" -> 0 [] x[1] = "W1" -> 40 [] OTHER -> 10]

BaseDispatchUpperLimit ==
    [x \in {y \in Range(AllProjects) \X Range(AllTimepoints) :
               y[1] = "W1" \/ (y[1] = "W2" /\ y[2] % 2 = 1)} |->
        IF x[1] = "W1" THEN 50 ELSE 10]

BaseProjFuelUseRate ==
    [x \in {y \in Range(AllProjects) \X Range(AllTimepoints) \X Range(AllFuels) :
               /\ <<y[1], y[2]>> \in DOMAIN BaseDispatchProj
               /\ g_uses_fuel[proj_gen_tech[y[1]]]
               /\ y[3] \in G_FUELS[proj_gen_tech[y[1]]]} |->
        IF x[1] = "ST1" THEN 0 ELSE IF x[3] = "LNG" THEN 3 ELSE 1]

\* capacities in 0.001 MW: CC1 and W1 are built, ST1 is not, W2 has exactly
\* the threshold
BaseProjCapacity ==
    [x \in Range(AllProjects) \X Range(AllPeriods) |->
        CASE x[1] = "CC1" -> 120000 [] x[1] = "ST1" -> 0 [] x[1] = "W1" -> 60000 [] OTHER -> 1]

\* CC1 and W1 are built in the first period; W2 has a build year with nothing built
BaseBuildProj ==
    [x \in {<<"CC1", AllPeriods[1]>>, <<"W1", AllPeriods[1]>>, <<"W2", AllPeriods[1]>>} |->
        CASE x[1] = "CC1" -> 120 [] x[1] = "W1" -> 60 [] OTHER -> 0]

BaseModel ==
    [attrs |-> {"lz_demand_mw"},
     scenario_name |-> "",
     PERIODS |-> SubSeq(AllPeriods, 1, 1),
     TIMEPOINTS |-> TimepointsOf(SubSeq(AllPeriods, 1, 1)),
     FUELS |-> AllFuels,
     NON_FUEL_ENERGY_SOURCES |-> AllNonFuelSources,
     PROJECTS |-> AllProjects,
     LZ_Energy_Components_Produce |-> AllProduceComponents,
     LZ_Energy_Components_Consume |-> AllConsumeComponents,
     DispatchProj |-> Restrict(BaseDispatchProj, Range(AllProjects) \X {1, 2}),
     DispatchUpperLimit |-> Restrict(BaseDispatchUpperLimit, Range(AllProjects) \X {1, 2}),
     ProjFuelUseRate |-> Restrict(BaseProjFuelUseRate,
                                  Range(AllProjects) \X {1, 2} \X Range(AllFuels)),
     ProjCapacity |-> BaseProjCapacity,
     BuildProj |-> BaseBuildProj,
     BuildBattery |-> [x \in Range(LOAD_ZONES) \X Range(AllPeriods) |-> 0],
     dual |-> [x \in {<<"z1", 1>>} |-> 6],
     tp_ts |-> [t \in Range(AllTimepoints) |-> t],
     ts_scale_to_year |-> [ts \in Range(AllTimepoints) |-> IF ts % 2 = 1 THEN 1 ELSE 3],
     discount_rate |-> <<1, 2>>,
     period_length_years |-> [p \in Range(AllPeriods) |-> 2]]

\* the indices of ProjFuelUseRate for a DispatchProj defined on the set pts:
\* every (project, timepoint, eligible fuel) of a fuel-using project
FuelDispatchPoints(pts) ==
    UNION {{<<q[1], q[2], f>> : f \in G_FUELS[proj_gen_tech[q[1]]]} :
              q \in {x \in pts : g_uses_fuel[proj_gen_tech[x[1]]]}}

\* instances for the allocator: CC1 (two fuels) dispatched or not at both
\* timepoints, ST1 (one fuel) at the first, with every pattern of use rates
AllocModels ==
    UNION {{[BaseModel EXCEPT !.DispatchProj = dp, !.ProjFuelUseRate = ur] :
               ur \in [FuelDispatchPoints(DOMAIN dp) -> 0..MaxRate]} :
           dp \in PartialMaps({<<"CC1", 1>>, <<"CC1", 2>>, <<"ST1", 1>>}, DispatchValues)}

(***************************************************************************)
(* The allocator applied on its own: one step computes the shares of every *)
(* eligible fuel of one project at one timepoint, as one row of the        *)
(* energy_sources report does for each of its fuel columns.                *)
(***************************************************************************)
NoCall == [fn |-> "none"]

\* the value of built before lines 189-198 have run
NotBuilt == [proj |-> {}, operate |-> {}, tech |-> <<>>, energy_source |-> <<>>]

InitAlloc ==
    /\ m \in AllocModels
    /\ pc = "idle"
    /\ files = <<>>
    /\ built = NotBuilt
    /\ err = "none"
    /\ call = NoCall

CallDispatchProjByFuel ==
    /\ pc = "idle"
    /\ \E p \in {q \in Range(m.PROJECTS) : g_uses_fuel[proj_gen_tech[q]]},
          tp \in Range(m.TIMEPOINTS) :
           call' = [fn |-> "DispatchProjByFuel", proj |-> p, tp |-> tp,
                    res |-> [f \in G_FUELS[proj_gen_tech[p]] |-> DispatchProjByFuel(m, p, tp, f)]]
    /\ UNCHANGED <<m, pc, files, built, err>>

NextAlloc == CallDispatchProjByFuel

SpecAlloc == InitAlloc /\ [][NextAlloc]_vars

\* the dispatch of the call's project at the call's timepoint, 0 when not defined
CallDispatch ==
    IF <<call.proj, call.tp>> \in DOMAIN m.DispatchProj
    THEN m.DispatchProj[<<call.proj, call.tp>>] ELSE 0

\* the use rates of the call's project at the call's timepoint, summed over
\* its eligible fuels (0 for a rate that is not defined)
RECURSIVE SumRates(_, _, _)
SumRates(proj, tp, fuels) ==
    IF fuels = {} THEN 0
    ELSE LET f == CHOOSE x \in fuels : TRUE
         IN  (IF <<proj, tp, f>> \in DOMAIN m.ProjFuelUseRate
              THEN m.ProjFuelUseRate[<<proj, tp, f>>] ELSE 0)
             + SumRates(proj, tp, fuels \ {f})

CallTotalRate == SumRates(call.proj, call.tp, DOMAIN call.res)

\* the shares a call returned, summed as a fraction <<numerator, denominator>>
RECURSIVE SumShares(_, _)
SumShares(res, fuels) ==
    IF fuels = {} THEN <<0, 1>>
    ELSE LET f == CHOOSE x \in fuels : TRUE
             rest == SumShares(res, fuels \ {f})
         IN  <<res[f].v.n * rest[2] + rest[1] * res[f].v.d, res[f].v.d * rest[2]>>

\* C2: for a project and timepoint with nonzero dispatch and nonzero total
\* use rate over the eligible fuels, every share is returned (no exception),
\* each share is dispatch * use_rate[f] / total use rate, and the shares sum
\* to the dispatch.
C2_SharesSumToDispatch ==
    (call.fn = "DispatchProjByFuel" /\ CallDispatch # 0 /\ CallTotalRate # 0) =>
        /\ \A f \in DOMAIN call.res :
              /\ call.res[f].err = "none"
              /\ call.res[f].v.k = "float"
              /\ call.res[f].v.n * CallTotalRate
                   = call.res[f].v.d * CallDispatch * m.ProjFuelUseRate[<<call.proj, call.tp, f>>]
        /\ LET s == SumShares(call.res, DOMAIN call.res)
           IN  s[1] = CallDispatch * s[2]

\* C2 witness: CC1 dispatches 100 on two fuels used 3:1, shares 75 and 25
C2_Witness ==
    /\ call.fn = "DispatchProjByFuel" /\ call.proj = "CC1"
    /\ CallDispatch = 100
    /\ m.ProjFuelUseRate[<<"CC1", call.tp, "LNG">>] = 3
    /\ m.ProjFuelUseRate[<<"CC1", call.tp, "Diesel">>] = 1
    /\ call.res["LNG"].v = Flt(75) /\ call.res["Diesel"].v = Flt(25)

\* C3: when the dispatch of (project, timepoint) is 0.0, or the pair is not
\* an index of DispatchProj, every fuel's share is exactly the float 0.0 and
\* ProjFuelUseRate is not read, whatever the use rates are.
C3_ZeroDispatchGivesZero ==
    (call.fn = "DispatchProjByFuel" /\ CallDispatch = 0) =>
        \A f \in DOMAIN call.res :
            call.res[f] = [err |-> "none", v |-> Zero, readRate |-> FALSE]

\* C3 witness: a pair that is no index of DispatchProj, and a pair whose
\* dispatch is 0.0 while its use rates are not 0
C3_Witness ==
    /\ call.fn = "DispatchProjByFuel"
    /\ \/ <<call.proj, call.tp>> \notin DOMAIN m.DispatchProj
       \/ /\ <<call.proj, call.tp>> \in DOMAIN m.DispatchProj
          /\ CallDispatch = 0 /\ CallTotalRate # 0
    /\ \A f \in DOMAIN call.res : call.res[f].v = Zero

\* C4: when the dispatch is nonzero and the use rates of the eligible fuels
\* sum to 0, every share is 0.0 and no exception leaves DispatchProjByFuel.
C4_ZeroRateGivesZero ==
    (call.fn = "DispatchProjByFuel" /\ CallDispatch # 0 /\ CallTotalRate = 0) =>
        \A f \in DOMAIN call.res : call.res[f].err = "none" /\ call.res[f].v = Zero

\* C4 witness: CC1 dispatches 100 while both its use rates are 0
C4_Witness ==
    /\ call.fn = "DispatchProjByFuel" /\ call.proj = "CC1"
    /\ CallDispatch = 100 /\ CallTotalRate = 0
    /\ \A f \in DOMAIN call.res : call.res[f].err = "none" /\ call.res[f].v = Zero

(***************************************************************************)
(* write_results, lines 134-375: one step per table, in the order of the   *)
(* code, with the computation of the built sets (lines 189-198) between    *)
(* energy_sources and the capacity tables.  An exception ends the run.     *)
(***************************************************************************)
\* the step a table's write_table call takes: the file, the exception, the
\* next position
WriteStep(report, headings, index, results, next) ==
    /\ files' = Append(files, write_table(output_file(m, report), headings, index, results))
    /\ err' = TableError(results)
    /\ pc' = IF TableError(results) = "none" THEN next ELSE "raised"

\* lines 137-141: no index set, one row
WriteSummary ==
    /\ pc = "summary"
    /\ WriteStep("summary", summary_headers(m), <<<<>>>>, <<summary_values(m)>>, "energy_sources")
    /\ UNCHANGED <<m, built, call>>

WriteEnergySourcesByTimepoint ==
    /\ pc = "energy_sources"
    /\ LET index == Product2(m.TIMEPOINTS, LOAD_ZONES)
       IN  WriteStep("energy_sources", energy_sources_headings(m), index,
                     [k \in 1..Len(index) |-> energy_sources_values(m, index[k][2], index[k][1])],
                     "built")
    /\ UNCHANGED <<m, built, call>>

\* lines 152-186
WriteEnergySources ==
    /\ pc = "energy_sources"
    /\ LET index == Product2(LOAD_ZONES, m.TIMEPOINTS)
       IN  WriteStep("energy_sources", energy_sources_headings(m), index,
                     [k \in 1..Len(index) |-> energy_sources_values(m, index[k][1], index[k][2])],
                     "built")
    /\ UNCHANGED <<m, built, call>>

\* lines 189-198: tuple(set(...)) yields the elements in an order of its own
ComputeBuilt ==
    /\ pc = "built"
    /\ IF CapacityDefined(m)
       THEN /\ \E to \in Orders({proj_gen_tech[p] : p \in built_proj_of(m)}) :
                 \E eo \in Orders({g_energy_source_of(proj_gen_tech[p]) : p \in built_proj_of(m)}) :
                     built' = [proj |-> built_proj_of(m),
                               operate |-> operate_proj_in_period_of(m),
                               tech |-> to, energy_source |-> eo]
            /\ pc' = "capacity_by_technology"
            /\ err' = err
       ELSE \* line 191: ProjCapacity[pr, pe] is not defined
            /\ built' = built
            /\ pc' = "raised"
            /\ err' = "KeyError"
    /\ UNCHANGED <<m, files, call>>

\* lines 206-221
WriteCapacityByTechnology ==
    /\ pc = "capacity_by_technology"
    /\ LET index == Product2(LOAD_ZONES, m.PERIODS)
       IN  WriteStep("capacity_by_technology", capacity_by_technology_headings(built), index,
                     [k \in 1..Len(index) |->
                         capacity_by_technology_values(m, built, index[k][1], index[k][2])],
                     "capacity_by_energy_source")
    /\ UNCHANGED <<m, built, call>>

\* lines 222-237
WriteCapacityByEnergySource ==
    /\ pc = "capacity_by_energy_source"
    /\ LET index == Product2(LOAD_ZONES, m.PERIODS)
       IN  WriteStep("capacity_by_energy_source", capacity_by_energy_source_headings(built), index,
                     [k \in 1..Len(index) |->
                         capacity_by_energy_source_values(m, built, index[k][1], index[k][2])],
                     "cost_breakdown")
    /\ UNCHANGED <<m, built, call>>

\* lines 341-361
WriteCostBreakdown ==
    /\ pc = "cost_breakdown"
    /\ LET index == Product2(LOAD_ZONES, m.PERIODS)
       IN  WriteStep("cost_breakdown", cost_breakdown_headings(m, built), index,
                     [k \in 1..Len(index) |->
                         cost_breakdown_details(m, built, index[k][1], index[k][2])],
                     "rfm_activate")
    /\ UNCHANGED <<m, built, call>>

\* lines 370-375: written only when the model has RFMSupplyTierActivate
WriteRfmActivate ==
    /\ pc = "rfm_activate"
    /\ IF hasattr(m, "RFMSupplyTierActivate")
       THEN LET index == RFM_SUPPLY_TIERS(m)
            IN  WriteStep("rfm_activate", rfm_activate_headings, index,
                          [k \in 1..Len(index) |-> rfm_activate_values(m, index[k])], "done")
       ELSE pc' = "done" /\ UNCHANGED <<files, err>>
    /\ UNCHANGED <<m, built, call>>

Next ==
    \/ WriteSummary
    \/ WriteEnergySources
    \/ ComputeBuilt
    \/ WriteCapacityByTechnology
    \/ WriteCapacityByEnergySource
    \/ WriteCostBreakdown
    \/ WriteRfmActivate

\* the state in which post_solve calls write_results on the model mm
Start(models) ==
    /\ m \in models
    /\ pc = "summary"
    /\ files = <<>>
    /\ built = NotBuilt
    /\ err = "none"
    /\ call = NoCall

\* the file of a report, when it has been written
HasFile(report) == \E i \in 1..Len(files) : files[i].name = output_file(m, report)

File(report) == files[CHOOSE i \in 1..Len(files) : files[i].name = output_file(m, report)]
(***************************************************************************)
(* The cost_breakdown report over every combination of the optional        *)
(* attributes it tests with hasattr.                                       *)
(***************************************************************************)
CostAttrs ==
    {"BuildBattery", "battery_capital_cost_per_mwh_capacity",
     "battery_capital_cost_per_mwh_capacity_by_year", "BuildPumpedHydroMW",
     "BuildElectrolyzerMW", "ev_share", "REGIONAL_FUEL_MARKET", "RFM_Fixed_Costs_Annual",
     "ev_extra_annual_cost", "ice_annual_fuel_cost"}

BatteryAttrs ==
    {"BuildBattery", "battery_capital_cost_per_mwh_capacity",
     "battery_capital_cost_per_mwh_capacity_by_year"}

BatteryColumns == {"batteries_mw_added", "batteries_mwh_added", "batteries_overnight_cost"}

\* the base instance with each set of cost attributes (the tier activation
\* variable comes with the fuel markets), with no battery built or 8 MWh in z1
CostModels ==
    {[BaseModel EXCEPT
         !.attrs = {"lz_demand_mw"} \cup a
                   \cup (IF "REGIONAL_FUEL_MARKET" \in a THEN {"RFMSupplyTierActivate"} ELSE {}),
         !.BuildBattery = [x \in Range(LOAD_ZONES) \X Range(AllPeriods) |->
                              IF x[1] = "z1" THEN bb ELSE 0]] :
        a \in SUBSET CostAttrs, bb \in {0, 8}}

InitCost == Start(CostModels)

SpecCost == InitCost /\ [][Next]_vars

\* C1: in the cost_breakdown table every row has as many values as the
\* heading row has column names, for every combination of the optional
\* attributes.
C1_CostBreakdownArity ==
    HasFile("cost_breakdown") =>
        \A k \in 1..Len(File("cost_breakdown").rows) :
            Len(File("cost_breakdown").rows[k]) = Len(File("cost_breakdown").headings)

WithoutBattery(mm) == [mm EXCEPT !.attrs = @ \ BatteryAttrs]

\* m has the battery attributes and builds no battery anywhere
BatteryPresentNotBuilt ==
    /\ "BuildBattery" \in m.attrs
    /\ \A x \in DOMAIN m.BuildBattery : m.BuildBattery[x] = 0

\* C8: when the model has the battery attributes with BuildBattery = 0
\* everywhere, the run of the same model without the battery attributes
\* writes the same heading row, and every row of cost_breakdown has, under
\* every non-battery column, the value that run has there.
C8_NonBatteryColumnsAgree ==
    (HasFile("cost_breakdown") /\ err = "none" /\ BatteryPresentNotBuilt) =>
        LET f == File("cost_breakdown")
        IN  /\ cost_breakdown_headings(WithoutBattery(m), built) = f.headings
            /\ \A k \in 1..Len(f.rows) :
                   LET r0 == cost_breakdown_details(WithoutBattery(m), built,
                                                    f.index[k][1], f.index[k][2])
                   IN  /\ r0.err = "none"
                       /\ Len(r0.v) = Len(f.rows[k])
                       /\ \A i \in 1..Len(f.rows[k]) :
                              (i <= Len(f.headings) /\ f.headings[i] \in BatteryColumns)
                              \/ f.rows[k][i] = r0.v[i]

\* C8 witness: a finished cost_breakdown of a model with the battery
\* attributes and no battery built
C8_Witness ==
    /\ HasFile("cost_breakdown") /\ err = "none" /\ BatteryPresentNotBuilt
    /\ Len(File("cost_breakdown").rows) = Len(LOAD_ZONES) * Len(m.PERIODS)
(***************************************************************************)
(* write_results over model instances of every shape: the number of        *)
(* periods, fuels, non-fuel sources and energy-balance components, the     *)
(* optional attributes of the summary, capacity and rfm_activate reports,  *)
(* and the pattern of ProjCapacity.                                        *)
(***************************************************************************)
ShapeAttrs ==
    {"RPSEligiblePower", "RFMSupplyTierActivate", "Pumped_Hydro_Capacity_MW",
     "Battery_Capacity", "FuelCellCapacityMW"}

DemandSideAttrs == {"demand_response_max_share", "DemandResponse", "ChargeEVs"}

\* the projects a model with the fuels F and the non-fuel sources N has
ProjectsFor(F, N) ==
    SelectSeq(AllProjects,
              LAMBDA p : IF g_uses_fuel[proj_gen_tech[p]]
                         THEN G_FUELS[proj_gen_tech[p]] \subseteq Range(F)
                         ELSE g_energy_source[proj_gen_tech[p]] \in Range(N))

\* ProjCapacity over the projects P and periods Q, in 0.001 MW: "base" is
\* BaseProjCapacity, "hole" is "base" without the last period of the first
\* project
CapacityPattern(kind, P, Q) ==
    LET full == Range(P) \X Range(Q)
        holes == IF kind = "hole" /\ P # <<>> THEN {<<P[1], Q[Len(Q)]>>} ELSE {}
    IN  [x \in full \ holes |-> BaseProjCapacity[x]]

ShapeModel(nP, nF, nN, nC, a, ds, kind) ==
    LET Q == SubSeq(AllPeriods, 1, nP)
        T == TimepointsOf(Q)
        F == SubSeq(AllFuels, 1, nF)
        N == SubSeq(AllNonFuelSources, 1, nN)
        P == ProjectsFor(F, N)
    IN  [BaseModel EXCEPT
            !.attrs = {"lz_demand_mw"} \cup a \cup (IF ds THEN DemandSideAttrs ELSE {}),
            !.scenario_name = IF ds THEN "high_dr" ELSE "",
            !.PERIODS = Q,
            !.TIMEPOINTS = T,
            !.FUELS = F,
            !.NON_FUEL_ENERGY_SOURCES = N,
            !.PROJECTS = P,
            !.LZ_Energy_Components_Produce = SubSeq(AllProduceComponents, 1, nC),
            !.LZ_Energy_Components_Consume = SubSeq(AllConsumeComponents, 1, 2 - (nC \div 2)),
            !.DispatchProj = Restrict(BaseDispatchProj, Range(P) \X Range(T)),
            !.DispatchUpperLimit = Restrict(BaseDispatchUpperLimit, Range(P) \X Range(T)),
            !.ProjFuelUseRate = Restrict(BaseProjFuelUseRate, Range(P) \X Range(T) \X Range(F)),
            !.ProjCapacity = CapacityPattern(kind, P, Q),
            !.BuildProj = Restrict(BaseBuildProj, Range(P) \X Range(Q))]

ShapeModels ==
    {ShapeModel(nP, nF, nN, nC, a, ds, kind) :
        nP \in 1..MaxPeriods, nF \in 0..Len(AllFuels), nN \in 0..Len(AllNonFuelSources),
        nC \in 0..Len(AllProduceComponents), a \in SUBSET ShapeAttrs, ds \in BOOLEAN,
        kind \in {"base", "hole"}}

Init == Start(ShapeModels)

Spec == Init /\ [][Next]_vars

\* C5 as claimed: no read of a sparse component at an index it does not
\* have raises a lookup error while the reports are built.
C5_SparseReadsNeverRaise == ~(pc = "raised" /\ err = "KeyError")

\* the model mm without the renewable-portfolio-standard attribute
WithoutRPS(mm) == [mm EXCEPT !.attrs = @ \ {"RPSEligiblePower"}]

\* the RPS column group of the summary
RPSColumns(periods) ==
    <<"renewable_share_all_years">> \o PeriodHeads("renewable_share_", periods)
    \o <<"biofuel_share_all_years">> \o PeriodHeads("biofuel_share_", periods)

\* C9: the summary heading row of a model with RPSEligiblePower is the
\* heading row of the same model without it followed by the RPS column
\* group, and the row has, under every shared column, the value the run
\* without the attribute gives.
C9_RPSGroupAppended ==
    (HasFile("summary") /\ hasattr(m, "RPSEligiblePower")) =>
        LET f == File("summary")
            h0 == summary_headers(WithoutRPS(m))
            r0 == summary_values(WithoutRPS(m))
        IN  /\ f.headings = h0 \o RPSColumns(m.PERIODS)
            /\ r0.err = "none" /\ Len(r0.v) = Len(h0)
            /\ Len(f.rows) = 1
            /\ SubSeq(f.rows[1], 1, Len(h0)) = r0.v

\* C9 witness: the summary of a two-period model with RPSEligiblePower,
\* 2 * (1 + 2) columns longer than without it
C9_Witness ==
    /\ HasFile("summary") /\ hasattr(m, "RPSEligiblePower") /\ Len(m.PERIODS) = 2
    /\ Len(File("summary").rows) = 1
    /\ Len(File("summary").rows[1]) = Len(summary_headers(WithoutRPS(m))) + 6

\* C10: in every table other than cost_breakdown each row has as many
\* values as the heading row has column names.
C10_RowArityIsHeaderArity ==
    \A i \in 1..Len(files) :
        files[i].name # output_file(m, "cost_breakdown") =>
            \A k \in 1..Len(files[i].rows) : Len(files[i].rows[k]) = Len(files[i].headings)

\* C10 witness: a finished run that wrote the five tables for two periods,
\* two fuels, a non-fuel source, two built technologies and the storage and
\* RPS attributes
C10_Witness ==
    /\ pc = "done"
    /\ \A r \in {"summary", "energy_sources", "capacity_by_technology",
                 "capacity_by_energy_source", "rfm_activate"} :
           HasFile(r) /\ File(r).rows # <<>>
    /\ Len(m.PERIODS) = 2 /\ Len(m.FUELS) = 2 /\ m.NON_FUEL_ENERGY_SOURCES # <<>>
    /\ Len(built.tech) = 2
    /\ {"RPSEligiblePower", "Battery_Capacity", "Pumped_Hydro_Capacity_MW"} \subseteq m.attrs
(***************************************************************************)
(* The energy_sources report over the dispatch and fuel use rates of the   *)
(* fuel-using projects: CC1 burns LNG and Diesel, ST1 burns LNG.           *)
(***************************************************************************)
\* the duals the solver may have produced: 6 for the balance of (z1, 1),
\* -4 for that of (z2, 2), each present or not
DualMaps ==
    {[x \in S |-> IF x[1] = "z1" THEN 6 ELSE -4] : S \in SUBSET {<<"z1", 1>>, <<"z2", 2>>}}

\* CC1 and ST1 dispatched or not at the first timepoint, never at the
\* second, with every pattern of use rates and of duals
EnergyModels ==
    UNION {{[BaseModel EXCEPT !.DispatchProj = dp, !.ProjFuelUseRate = ur, !.dual = du] :
               ur \in [FuelDispatchPoints(DOMAIN dp) -> 0..MaxRate], du \in DualMaps} :
           dp \in PartialMaps({<<"CC1", 1>>, <<"ST1", 1>>}, DispatchValues)}

InitEnergy == Start(EnergyModels)

SpecEnergy == InitEnergy /\ [][Next]_vars

\* dispatch * rate[f] / (sum of the rates of the eligible fuels) of project
\* p at timepoint t, 0.0 without dispatch or with a zero sum of rates
ExpectedShare(p, t, f) ==
    LET d == IF <<p, t>> \in DOMAIN m.DispatchProj THEN m.DispatchProj[<<p, t>>] ELSE 0
        total == SumRates(p, t, G_FUELS[proj_gen_tech[p]])
    IN  IF d = 0 \/ total = 0 THEN Zero ELSE Float(d * m.ProjFuelUseRate[<<p, t, f>>], total)

\* the projects that may burn the fuel f, in the order of PROJECTS
BurnersOf(f) ==
    SelectSeq(m.PROJECTS, LAMBDA p : g_uses_fuel[proj_gen_tech[p]] /\ f \in G_FUELS[proj_gen_tech[p]])

\* the row of energy_sources for load zone z and timepoint t
EnergyRow(z, t) ==
    LET f == File("energy_sources")
    IN  f.rows[CHOOSE k \in 1..Len(f.rows) : f.index[k] = <<z, t>>]

\* CC1 alone dispatches 100 at timepoint 1 with LNG and Diesel used 3:1
SingleProject3to1 ==
    /\ <<"CC1", 1>> \in DOMAIN m.DispatchProj /\ m.DispatchProj[<<"CC1", 1>>] = 100
    /\ m.ProjFuelUseRate[<<"CC1", 1, "LNG">>] = 3
    /\ m.ProjFuelUseRate[<<"CC1", 1, "Diesel">>] = 1
    /\ <<"ST1", 1>> \notin DOMAIN m.DispatchProj

\* C6: every row (z, t) of energy_sources is written and has, under every
\* fuel f, the sum over the projects of PROJECTS_BY_FUEL[f] of their share
\* of f at t; with CC1 alone dispatching 100 on fuels used 3:1 the row of
\* timepoint 1 shows 75.0 and 25.0, and a timepoint without dispatch shows
\* 0.0 under both fuels.
C6_FuelColumnsSumShares ==
    HasFile("energy_sources") =>
        LET f == File("energy_sources")
        IN  /\ f.index = Product2(LOAD_ZONES, m.TIMEPOINTS)
            /\ \A k \in 1..Len(f.rows) : \A i \in 1..Len(m.FUELS) :
                   LET ps == BurnersOf(m.FUELS[i])
                   IN  /\ f.headings[3 + i] = m.FUELS[i]
                       /\ NumEq(f.rows[k][3 + i],
                                SumSeq([j \in 1..Len(ps) |->
                                           ExpectedShare(ps[j], f.index[k][2], m.FUELS[i])]))
            /\ SingleProject3to1 =>
                   \A z \in Range(LOAD_ZONES) :
                       /\ EnergyRow(z, 1)[4] = Flt(75) /\ EnergyRow(z, 1)[5] = Flt(25)
            /\ \A z \in Range(LOAD_ZONES) : \A t \in Range(m.TIMEPOINTS) :
                   (\A p \in Range(m.PROJECTS) :
                        g_uses_fuel[proj_gen_tech[p]] =>
                            (<<p, t>> \notin DOMAIN m.DispatchProj \/ m.DispatchProj[<<p, t>>] = 0))
                   => (EnergyRow(z, t)[4] = Zero /\ EnergyRow(z, t)[5] = Zero)

\* C6 witness: the table of the 3:1 model, 75.0 and 25.0 at timepoint 1 and
\* 0.0 for both fuels at timepoint 2
C6_Witness ==
    /\ HasFile("energy_sources") /\ SingleProject3to1
    /\ EnergyRow("z1", 1)[4] = Flt(75) /\ EnergyRow("z1", 1)[5] = Flt(25)
    /\ EnergyRow("z1", 2)[4] = Zero /\ EnergyRow("z1", 2)[5] = Zero
(***************************************************************************)
(* The built sets over capacities at and just above the threshold: every   *)
(* project but W2 has, in each period, exactly 0.001 MW or 0.002 MW.       *)
(***************************************************************************)
ThresholdModels ==
    {[BaseModel EXCEPT
         !.PERIODS = AllPeriods,
         !.TIMEPOINTS = AllTimepoints,
         !.DispatchProj = BaseDispatchProj,
         !.DispatchUpperLimit = BaseDispatchUpperLimit,
         !.ProjFuelUseRate = BaseProjFuelUseRate,
         !.ProjCapacity = [x \in Range(AllProjects) \X Range(AllPeriods) |->
                              IF x[1] = "W2" THEN 0 ELSE cap[x]]] :
        cap \in [{"CC1", "ST1", "W1"} \X Range(AllPeriods) -> {1, 2}]}

InitThreshold == Start(ThresholdModels)

SpecThreshold == InitThreshold /\ [][Next]_vars

\* the technologies with a project whose ProjCapacity (in 0.001 MW) is above
\* 1 in some period
TechsAboveThreshold ==
    {proj_gen_tech[p] : p \in {q \in Range(m.PROJECTS) :
        \E pe \in Range(m.PERIODS) : m.ProjCapacity[<<q, pe>>] > 1}}

\* the names in the sequence h that are a technology followed by suffix,
\* as technologies, in the order of h
TechColumns(h, suffix) ==
    LET named == SelectSeq(h, LAMBDA c : \E t \in AllTechs : c = t \o suffix)
    IN  [i \in 1..Len(named) |-> CHOOSE t \in AllTechs : named[i] = t \o suffix]

\* C11: the technology columns of capacity_by_technology are the
\* technologies with a project above 0.001 MW in some period, each once,
\* and the <tech>_mw_added and <tech>_overnight_cost columns of
\* cost_breakdown are the same technologies in the same order.
C11_BuiltTechColumns ==
    /\ HasFile("capacity_by_technology") =>
           LET h == File("capacity_by_technology").headings
               T == SubSeq(h, 3, Len(h) - 3)
           IN  /\ Range(T) = TechsAboveThreshold
               /\ Len(T) = Cardinality(TechsAboveThreshold)
               /\ T = built.tech
    /\ HasFile("cost_breakdown") =>
           LET h == File("cost_breakdown").headings
           IN  /\ TechColumns(h, "_mw_added") = built.tech
               /\ TechColumns(h, "_overnight_cost") = built.tech
               /\ SubSeq(h, 3, 2 + Len(built.tech))
                      = [i \in 1..Len(built.tech) |-> built.tech[i] \o "_mw_added"]

\* C11 witness: both tables written, ST stays out with exactly 0.001 MW in
\* every period, CC is in with 0.002 MW in the last period only
C11_Witness ==
    /\ HasFile("capacity_by_technology") /\ HasFile("cost_breakdown")
    /\ \A pe \in Range(m.PERIODS) : m.ProjCapacity[<<"ST1", pe>>] = 1
    /\ \A i \in 1..Len(m.PERIODS) :
           m.ProjCapacity[<<"CC1", m.PERIODS[i]>>] = (IF i = Len(m.PERIODS) THEN 2 ELSE 1)
    /\ "CC" \in Range(built.tech) /\ "ST" \notin Range(built.tech)
    /\ "CC_mw_added" \in Range(File("cost_breakdown").headings)
(***************************************************************************)
(* The peak_day column over timeseries of one or two timepoints and every  *)
(* pattern of scale factors; no project is built.                          *)
(***************************************************************************)
ScaleValues == {1, 2, 3}

\* the two timepoints of a period are one timeseries (named by the first)
\* when the period is in joined, and two timeseries otherwise
ScaleModels ==
    {[BaseModel EXCEPT
         !.PERIODS = AllPeriods,
         !.TIMEPOINTS = AllTimepoints,
         !.ProjCapacity = [x \in Range(AllProjects) \X Range(AllPeriods) |-> 0],
         !.tp_ts = [t \in Range(AllTimepoints) |->
                       IF tp_period(t) \in joined /\ t % 2 = 0 THEN t - 1 ELSE t],
         !.ts_scale_to_year = sc] :
        joined \in SUBSET Range(AllPeriods), sc \in [Range(AllTimepoints) -> ScaleValues]}

InitScale == Start(ScaleModels)

SpecScale == InitScale /\ [][Next]_vars

\* the timeseries of m, as the set of the values of tp_ts
SeriesOf == {m.tp_ts[t] : t \in Range(m.TIMEPOINTS)}

\* the sum of ts_scale_to_year over the set S of timeseries
RECURSIVE ScaleSum(_)
ScaleSum(S) ==
    IF S = {} THEN 0
    ELSE LET ts == CHOOSE x \in S : TRUE IN m.ts_scale_to_year[ts] + ScaleSum(S \ {ts})

\* the scale of the timeseries of t is strictly below the mean over SeriesOf
BelowMeanScale(t) ==
    m.ts_scale_to_year[m.tp_ts[t]] * Cardinality(SeriesOf) < ScaleSum(SeriesOf)

\* C12: in every energy_sources row the last column, peak_day, is "peak"
\* when the scale of the timepoint's timeseries is strictly less than the
\* mean scale over the timeseries, and "typical" otherwise, a scale equal
\* to the mean included.
C12_PeakBelowMeanScale ==
    HasFile("energy_sources") =>
        LET f == File("energy_sources")
        IN  /\ f.headings[Len(f.headings)] = "peak_day"
            /\ \A k \in 1..Len(f.rows) :
                   f.rows[k][Len(f.rows[k])]
                       = Str(IF BelowMeanScale(f.index[k][2]) THEN "peak" ELSE "typical")

\* C12 witness: a row of each kind, one of them "typical" at a scale equal
\* to the mean, in a table whose timeseries mean differs from the mean over
\* the timepoints
C12_Witness ==
    /\ HasFile("energy_sources")
    /\ Cardinality(SeriesOf) < Len(m.TIMEPOINTS)
    /\ \E k \in 1..Len(File("energy_sources").rows) :
           File("energy_sources").rows[k][Len(File("energy_sources").headings)] = Str("peak")
    /\ \E k \in 1..Len(File("energy_sources").rows) :
           LET t == File("energy_sources").index[k][2]
           IN  /\ m.ts_scale_to_year[m.tp_ts[t]] * Cardinality(SeriesOf) = ScaleSum(SeriesOf)
               /\ File("energy_sources").rows[k][Len(File("energy_sources").headings)]
                      = Str("typical")
(***************************************************************************)
(* annualize_present_value_period_cost applied on its own, as line 332     *)
(* applies it, over discount rates 0, 1/2 and 1, period lengths from 0     *)
(* years on, every period start and a few values.                          *)
(***************************************************************************)
DiscountRates == {<<0, 1>>, <<1, 2>>, <<1, 1>>}

CostValues == {0, 60, -30}

AnnualModels ==
    {[BaseModel EXCEPT !.PERIODS = AllPeriods, !.TIMEPOINTS = AllTimepoints,
                       !.discount_rate = dr, !.period_length_years = len] :
        dr \in DiscountRates, len \in [Range(AllPeriods) -> 0..MaxYears]}

InitAnnual ==
    /\ m \in AnnualModels
    /\ pc = "idle"
    /\ files = <<>>
    /\ built = NotBuilt
    /\ err = "none"
    /\ call = NoCall

CallAnnualize ==
    /\ pc = "idle"
    /\ \E p \in Range(m.PERIODS), x \in CostValues :
           call' = [fn |-> "annualize_present_value_period_cost", period |-> p, val |-> x,
                    res |-> annualize_present_value_period_cost(m, p, Flt(x))]
    /\ UNCHANGED <<m, pc, files, built, err>>

NextAnnual == CallAnnualize

SpecAnnual == InitAnnual /\ [][NextAnnual]_vars

\* C13 as claimed: with a period of zero years, or a discount rate of
\* exactly zero, annualize_present_value_period_cost returns a value and no
\* division fault leaves it.
C13_NoDivisionFault ==
    (/\ call.fn = "annualize_present_value_period_cost"
     /\ (m.period_length_years[call.period] = 0 \/ m.discount_rate[1] = 0)) =>
        call.res.err = "none"

\* C14: with a discount rate of exactly 0 and a period of n > 0 years,
\* annualize_present_value_period_cost(m, period, X) returns X / n, for
\* every period start and every X.
C14_ZeroRateSpreadsUniformly ==
    (/\ call.fn = "annualize_present_value_period_cost"
     /\ m.discount_rate[1] = 0 /\ m.period_length_years[call.period] # 0) =>
        /\ call.res.err = "none"
        /\ call.res.v.k = "float"
        /\ call.res.v.n * m.period_length_years[call.period] = call.val * call.res.v.d

\* C14 witness: 60 over a period of 3 years that starts after the base
\* year, at rate 0, gives 20.0
C14_Witness ==
    /\ call.fn = "annualize_present_value_period_cost"
    /\ m.discount_rate[1] = 0 /\ m.period_length_years[call.period] = 3
    /\ period_start(call.period) > base_financial_year
    /\ call.val = 60 /\ call.res = [err |-> "none", v |-> Flt(20)]

\* C15: every row of energy_sources is produced, and its marginal_cost is
\* the float 0.0 when the model has no dual for the balance of the row's
\* (load zone, timepoint), and that dual divided by
\* bring_timepoint_costs_to_base_year[t] when it has one.
C15_MarginalCostDefaultsToZero ==
    HasFile("energy_sources") =>
        LET f == File("energy_sources")
            col == Len(f.headings) - 1
        IN  /\ f.headings[col] = "marginal_cost"
            /\ Len(f.rows) = Len(LOAD_ZONES) * Len(m.TIMEPOINTS)
            /\ \A k \in 1..Len(f.rows) :
                   LET c == f.rows[k][col]
                       b == bring_timepoint_costs_to_base_year(f.index[k][2])
                   IN  IF f.index[k] \in DOMAIN m.dual
                       THEN c.k = "float" /\ c.n * b.n = m.dual[f.index[k]] * b.d * c.d
                       ELSE c = Zero

\* C15 witness: a table with the dual 6 of (z1, 1) shown as 12.0 in the
\* first row and 0.0 in every other row
C15_Witness ==
    /\ HasFile("energy_sources") /\ DOMAIN m.dual = {<<"z1", 1>>}
    /\ File("energy_sources").index[1] = <<"z1", 1>>
    /\ File("energy_sources").rows[1][Len(File("energy_sources").headings) - 1] = Flt(12)
    /\ \A k \in 2..Len(File("energy_sources").rows) :
           File("energy_sources").rows[k][Len(File("energy_sources").headings) - 1] = Zero
    /\ Len(File("energy_sources").rows) = Len(LOAD_ZONES) * Len(m.TIMEPOINTS)

\* the reports write_results has to write for the model m, in its order
Reports ==
    <<"summary", "energy_sources", "capacity_by_technology", "capacity_by_energy_source",
      "cost_breakdown">>
    \o (IF hasattr(m, "RFMSupplyTierActivate") THEN <<"rfm_activate">> ELSE <<>>)

\* C16 as claimed: when an exception ends the generation of one report
\* (the last file, cut short at the failing row), every other report of the
\* model is still written.
C16_FailureBlocksNoReport ==
    (pc = "raised" /\ files # <<>>) =>
        \A o \in Range(Reports) : output_file(m, o) = files[Len(files)].name \/ HasFile(o)

\* the table f has one row per pair of the sequences A and B
RowPerPair(f, A, B) == Len(f.rows) = Len(A) * Len(B) /\ Len(f.index) = Len(A) * Len(B)

\* the report is written and no exception cut it short
Complete(report) ==
    HasFile(report) /\ ~(pc = "raised" /\ files[Len(files)].name = output_file(m, report))

\* C17: energy_sources has one row per (load zone, timepoint), the capacity
\* reports and cost_breakdown one per (load zone, period), rfm_activate one
\* per supply tier; the rows come in the order of the product, the load
\* zone varying slowest, and each row is the row of its tuple.
C17_OneRowPerTuple ==
    /\ Complete("energy_sources") =>
           LET f == File("energy_sources")
               T == m.TIMEPOINTS
           IN  /\ RowPerPair(f, LOAD_ZONES, T)
               /\ \A i \in 1..Len(LOAD_ZONES) : \A j \in 1..Len(T) :
                      LET k == (i - 1) * Len(T) + j
                      IN  /\ f.rows[k][1] = Str(LOAD_ZONES[i])
                          /\ f.rows[k][3] = Str(tp_timestamp(T[j]))
               /\ f.index = Product2(LOAD_ZONES, T)
    /\ \A r \in {"capacity_by_technology", "capacity_by_energy_source", "cost_breakdown"} :
           Complete(r) =>
               /\ RowPerPair(File(r), LOAD_ZONES, m.PERIODS)
               /\ \A i \in 1..Len(LOAD_ZONES) : \A j \in 1..Len(m.PERIODS) :
                      LET k == (i - 1) * Len(m.PERIODS) + j
                      IN  /\ File(r).rows[k][1] = Str(LOAD_ZONES[i])
                          /\ File(r).rows[k][2] = PyInt(m.PERIODS[j])
               /\ File(r).index = Product2(LOAD_ZONES, m.PERIODS)
    /\ Complete("rfm_activate") =>
           LET f == File("rfm_activate")
           IN  /\ Len(f.rows) = Len(REGIONAL_FUEL_MARKET) * Len(m.PERIODS) * 2
               /\ f.index = RFM_SUPPLY_TIERS(m)
               /\ \A k \in 1..Len(f.rows) :
                      SubSeq(f.rows[k], 1, 3)
                          = <<Str(f.index[k][1]), PyInt(f.index[k][2]), Str(f.index[k][3])>>

\* C17 witness: a finished run over two load zones, two periods and four
\* timepoints with all six tables, 4 rows in cost_breakdown and 8 in
\* energy_sources, the second row being the first zone at the second
\* timepoint
C17_Witness ==
    /\ pc = "done" /\ Len(files) = 6
    /\ Len(m.PERIODS) = 2
    /\ Len(File("cost_breakdown").rows) = 2 * Len(LOAD_ZONES)
    /\ Len(File("energy_sources").rows) = 4 * Len(LOAD_ZONES)
    /\ File("energy_sources").index[2] = <<LOAD_ZONES[1], m.TIMEPOINTS[2]>>
    /\ Len(File("rfm_activate").rows) = 8

\* the text write_table puts into the file for the value c, for the values
\* whose text the reports' zeros need: str(0) is "0", str(0.0) is "0.0"; a
\* float that is no whole number is shown as its fraction
Rendered(c) ==
    CASE c.k = "str" -> c.s
      [] c.k = "int" -> ToString(c.n)
      [] c.d = 1 -> ToString(c.n) \o ".0"
      [] OTHER -> ToString(c.n) \o "/" \o ToString(c.d)

\* C18 as claimed: in the two capacity reports the hydro, batteries and
\* fuel cells columns of a model without Pumped_Hydro_Capacity_MW,
\* Battery_Capacity or FuelCellCapacityMW hold the value 0.0, written as the
\* text 0.0.
C18_AbsentStorageIsZeroPointZero ==
    \A r \in {"capacity_by_technology", "capacity_by_energy_source"} :
        HasFile(r) =>
            \A k \in 1..Len(File(r).rows) :
                LET row == File(r).rows[k]
                    absent == <<~hasattr(m, "Pumped_Hydro_Capacity_MW"),
                                ~hasattr(m, "Battery_Capacity"),
                                ~hasattr(m, "FuelCellCapacityMW")>>
                IN  \A i \in 1..3 :
                        absent[i] => (/\ row[Len(row) - 3 + i] = Zero
                                      /\ Rendered(row[Len(row) - 3 + i]) = "0.0")

\* the file names a complete run leaves, in order: each report's name,
\* then _<scenario_name> when the scenario name is not empty, then .tsv
ExpectedFileNames ==
    [i \in 1..Len(Reports) |->
        Reports[i] \o (IF m.scenario_name = "" THEN "" ELSE "_" \o m.scenario_name) \o ".tsv"]

\* C19: the files written so far are, in order, the first of summary,
\* energy_sources, capacity_by_technology, capacity_by_energy_source,
\* cost_breakdown and (only when m has RFMSupplyTierActivate) rfm_activate,
\* each named <report>[_<scenario_name>].tsv; a run that completes has
\* written all of them, each once.
C19_FixedReportOrder ==
    /\ Len(files) <= Len(ExpectedFileNames)
    /\ \A i \in 1..Len(files) : files[i].name = ExpectedFileNames[i]
    /\ pc = "done" => Len(files) = Len(ExpectedFileNames)

\* C19 witness: a completed run of scenario high_dr with rfm_activate as
\* its sixth and last file
C19_Witness ==
    /\ pc = "done" /\ m.scenario_name = "high_dr" /\ Len(files) = 6
    /\ files[1].name = "summary_high_dr.tsv"
    /\ files[6].name = "rfm_activate_high_dr.tsv"

\* the quantity that the cost_breakdown column named c shows for load zone
\* z and period pe
NamedQuantity(c, z, pe) ==
    LET techOf(suffix) == CHOOSE i \in 1..Len(built.tech) : c = built.tech[i] \o suffix
    IN  CASE c = "load_zone" -> Str(z)
          [] c = "period" -> PyInt(pe)
          [] \E i \in 1..Len(built.tech) : c = built.tech[i] \o "_mw_added" ->
                 TechMWAdded(m, built, z, pe)[techOf("_mw_added")]
          [] c = "batteries_mw_added" -> BatteryAdded(m, z, pe)[1]
          [] c = "batteries_mwh_added" -> BatteryAdded(m, z, pe)[2]
          [] c = "hydro_mw_added" -> HydroAdded(m, z, pe)
          [] c = "h2_electrolyzer_mw_added" -> HydrogenAdded(m, z, pe)[1]
          [] c = "h2_liquifier_kg_per_hour_added" -> HydrogenAdded(m, z, pe)[2]
          [] c = "liquid_h2_tank_kg_added" -> HydrogenAdded(m, z, pe)[3]
          [] c = "fuel_cell_mw_added" -> HydrogenAdded(m, z, pe)[4]
          [] c = "ev_count" -> VehicleCounts(m, z, pe)[1]
          [] c = "ice_count" -> VehicleCounts(m, z, pe)[2]
          [] \E i \in 1..Len(built.tech) : c = built.tech[i] \o "_overnight_cost" ->
                 TechOvernightCost(m, built, z, pe)[techOf("_overnight_cost")]
          [] c = "batteries_overnight_cost" -> BatteryOvernightCost(m, z, pe).v[1]
          [] c = "hydro_overnight_cost" -> HydroOvernightCost(m, z, pe)
          [] c = "h2_electrolyzer_overnight_cost" -> HydrogenOvernightCost(m, z, pe)[1]
          [] c = "h2_liquifier_overnight_cost" -> HydrogenOvernightCost(m, z, pe)[2]
          [] c = "liquid_h2_tank_overnight_cost" -> HydrogenOvernightCost(m, z, pe)[3]
          [] c = "fuel_cell_overnight_cost" -> HydrogenOvernightCost(m, z, pe)[4]
          [] \E i \in 1..Len(REGIONAL_FUEL_MARKET) : c = REGIONAL_FUEL_MARKET[i] \o "_annual_cost" ->
                 FuelMarketCosts(m, pe)[CHOOSE i \in 1..Len(REGIONAL_FUEL_MARKET) :
                                           c = REGIONAL_FUEL_MARKET[i] \o "_annual_cost"]
          [] c = "fuel_market_expansion_annual_cost" -> RFM_Fixed_Costs_Annual(pe)
          [] c = "total_electricity_cost" ->
                 annualize_present_value_period_cost(m, pe, SystemCostPerPeriod(pe)).v
          [] c = "ev_extra_capital_recovery" -> ev_extra_annual_cost(pe)
          [] c = "ice_annual_fuel_cost" -> ice_annual_fuel_cost(pe)

\* C20: in every cost_breakdown row that is as long as the heading row,
\* the value at each position is the quantity of the column named at that
\* position.
C20_ValuesUnderTheirNames ==
    HasFile("cost_breakdown") =>
        LET f == File("cost_breakdown")
        IN  \A k \in 1..Len(f.rows) :
                Len(f.rows[k]) = Len(f.headings) =>
                    \A i \in 1..Len(f.headings) :
                        f.rows[k][i] = NamedQuantity(f.headings[i], f.index[k][1], f.index[k][2])

\* C20 witness: a complete cost_breakdown with every column group, rows as
\* long as the heading row, 8 MWh of battery built in z1
C20_Witness ==
    /\ HasFile("cost_breakdown") /\ err = "none"
    /\ CostAttrs \ {"battery_capital_cost_per_mwh_capacity"} \subseteq m.attrs
    /\ m.BuildBattery[<<"z1", m.PERIODS[1]>>] = 8
    /\ Len(File("cost_breakdown").rows) = Len(LOAD_ZONES) * Len(m.PERIODS)
    /\ \A k \in 1..Len(File("cost_breakdown").rows) :
           Len(File("cost_breakdown").rows[k]) = Len(File("cost_breakdown").headings)
    /\ File("cost_breakdown").rows[1][IndexOf(File("cost_breakdown").headings,
                                              "batteries_mwh_added")] = Flt(8)

\* the value at index x of the sparse component c, 0 where c has none
ValueOr0(c, x) == IF x \in DOMAIN c THEN c[x] ELSE 0

\* the sum over the set S of projects of their dispatch at timepoint t
RECURSIVE SystemDispatch(_, _)
SystemDispatch(S, t) ==
    IF S = {} THEN 0
    ELSE LET p == CHOOSE x \in S : TRUE
         IN  ValueOr0(m.DispatchProj, <<p, t>>) + SystemDispatch(S \ {p}, t)

\* the sum over the set S of projects of their undispatched upper limit at t
RECURSIVE SystemCurtailment(_, _)
SystemCurtailment(S, t) ==
    IF S = {} THEN 0
    ELSE LET p == CHOOSE x \in S : TRUE
         IN  ValueOr0(m.DispatchUpperLimit, <<p, t>>) - ValueOr0(m.DispatchProj, <<p, t>>)
             + SystemCurtailment(S \ {p}, t)

\* the projects of the whole system with the non-fuel energy source s
ProjectsOfSource(s) ==
    {p \in Range(m.PROJECTS) :
        ~g_uses_fuel[proj_gen_tech[p]] /\ g_energy_source[proj_gen_tech[p]] = s}

\* C21: in energy_sources the columns of the fuels, of the non-fuel
\* sources and the curtail_ columns of two rows of the same timepoint are
\* equal whatever their load zones, and a source's column and its curtail_
\* column sum the dispatch and the undispatched upper limit over every
\* project of the source in the system.
C21_DispatchColumnsIgnoreZone ==
    Complete("energy_sources") =>
        LET f == File("energy_sources")
            nF == Len(m.FUELS)
            S == m.NON_FUEL_ENERGY_SOURCES
        IN  /\ \A k \in 1..Len(f.rows) : \A i \in 1..Len(S) :
                   /\ f.headings[3 + nF + i] = S[i]
                   /\ f.headings[3 + nF + Len(S) + i] = "curtail_" \o S[i]
                   /\ f.rows[k][3 + nF + i].n
                          = SystemDispatch(ProjectsOfSource(S[i]), f.index[k][2])
                              * f.rows[k][3 + nF + i].d
                   /\ f.rows[k][3 + nF + Len(S) + i].n
                          = SystemCurtailment(ProjectsOfSource(S[i]), f.index[k][2])
                              * f.rows[k][3 + nF + Len(S) + i].d
            /\ \A k, l \in 1..Len(f.rows) :
                   f.index[k][2] = f.index[l][2] =>
                       SubSeq(f.rows[k], 4, 3 + nF + 2 * Len(S))
                           = SubSeq(f.rows[l], 4, 3 + nF + 2 * Len(S))

\* C21 witness: the rows of z1 and z2 at the first timepoint both show the
\* 50 that W1 (in z1) and W2 (in z2) dispatch together under Wind, and the
\* 100 of CC1 (in z1) under its two fuels
C21_Witness ==
    /\ Complete("energy_sources")
    /\ Len(m.FUELS) = 2 /\ m.NON_FUEL_ENERGY_SOURCES # <<>>
    /\ {"CC1", "W1", "W2"} \subseteq Range(m.PROJECTS)
    /\ \A z \in Range(LOAD_ZONES) :
           /\ EnergyRow(z, 1)[6] = Flt(50)
           /\ EnergyRow(z, 1)[4] = Flt(75) /\ EnergyRow(z, 1)[5] = Flt(25)

(***************************************************************************)
(* Instances over all the periods in which the dispatch of each project    *)
(* differs from one period to the next: CC1 and W1 are built and run, or    *)
(* idle, in each period separately; ST1 and W2 are dispatched but stay at   *)
(* or below the 0.001 MW of line 191.                                       *)
(***************************************************************************)
OperatePoints == {<<"CC1", 1>>, <<"CC1", 3>>, <<"W1", 2>>, <<"W1", 4>>, <<"ST1", 2>>}

OperateModels ==
    {[BaseModel EXCEPT
         !.PERIODS = AllPeriods,
         !.TIMEPOINTS = AllTimepoints,
         !.DispatchUpperLimit = BaseDispatchUpperLimit,
         !.ProjFuelUseRate = BaseProjFuelUseRate,
         !.DispatchProj = [x \in DOMAIN BaseDispatchProj |->
                              IF x \in OperatePoints THEN dp[x]
                              ELSE IF x[1] = "W1" THEN 0 ELSE BaseDispatchProj[x]]] :
        dp \in [OperatePoints -> DispatchValues]}

InitOperate == Start(OperateModels)

SpecOperate == InitOperate /\ [][Next]_vars

\* project p has reached more than 0.001 MW in some period (line 191)
Built(p) == \E pe \in Range(m.PERIODS) : m.ProjCapacity[<<p, pe>>] > 1

\* project p is dispatched above 0.001 MW at a timepoint of period pe
Dispatched(p, pe) ==
    \E x \in DOMAIN m.DispatchProj :
        x[1] = p /\ tp_period(x[2]) = pe /\ m.DispatchProj[x] * 1000 > 1

\* the capacity, in thousandths of a MW, that the projects of S add to a row
\* of period pe
RECURSIVE CountedCapacity(_, _)
CountedCapacity(S, pe) ==
    IF S = {} THEN 0
    ELSE LET p == CHOOSE x \in S : TRUE
         IN  (IF Built(p) /\ Dispatched(p, pe) THEN m.ProjCapacity[<<p, pe>>] ELSE 0)
             + CountedCapacity(S \ {p}, pe)

\* the projects of load zone z
ProjectsOfZone(z) == {p \in Range(m.PROJECTS) : proj_load_zone[p] = z}

ColumnTotal(row, n) == SumSeq(SubSeq(row, 3, 2 + n))

\* C23: for every (load zone, period) the technology columns of the
\* capacity_by_technology row and the energy-source columns of the
\* capacity_by_energy_source row have the same total, and every built
\* technology has its one label among the energy-source columns, each label
\* being a column once.
C23_TechAndSourceTotalsAgree ==
    (Complete("capacity_by_technology") /\ Complete("capacity_by_energy_source")) =>
        LET ft == File("capacity_by_technology")
            fs == File("capacity_by_energy_source")
            nT == Len(built.tech)
            nS == Len(built.energy_source)
        IN  /\ \A i \in 1..nT :
                   Cardinality({j \in 1..nS :
                       fs.headings[2 + j] = g_energy_source_of(built.tech[i])}) = 1
            /\ \A k \in 1..Len(ft.rows) : \A l \in 1..Len(fs.rows) :
                   ft.index[k] = fs.index[l] =>
                       NumEq(ColumnTotal(ft.rows[k], nT), ColumnTotal(fs.rows[l], nS))

\* C23 witness: CC1 and W1, both in z1, run in the first period, so the row
\* of (z1, first period) totals 180 MW over the columns CC and WindTurbine
\* and over the columns Diesel/LNG and Wind
C23_Witness ==
    /\ Complete("capacity_by_technology") /\ Complete("capacity_by_energy_source")
    /\ Range(built.tech) = {"CC", "WindTurbine"}
    /\ Range(built.energy_source) = {"Diesel/LNG", "Wind"}
    /\ \E k \in 1..Len(File("capacity_by_technology").rows) :
           /\ File("capacity_by_technology").index[k] = <<"z1", AllPeriods[1]>>
           /\ File("capacity_by_energy_source").index[k] = <<"z1", AllPeriods[1]>>
           /\ ColumnTotal(File("capacity_by_technology").rows[k], 2) = Flt(180)
           /\ ColumnTotal(File("capacity_by_energy_source").rows[k], 2) = Flt(180)
====
